---- MODULE Spec2Model ----
(***************************************************************************)
(* ESP32Animator: the Renderer (render.h), the Animation container         *)
(* (animation.h), render() (render.cpp) and renderTask (ESP32Animator.ino) *)
(* as a state machine of two tasks: the render task, pinned to its own     *)
(* core, and one control task calling the Renderer's mutators.             *)
(*                                                                         *)
(* Units.  Times are milliseconds (portTICK_PERIOD_MS is 1).  The float    *)
(* speedCoefficient is kept in tenths (10 is 1.0f) and the float           *)
(* peakBrightnessCoefficient in hundredths (40 is 0.40f); the inputs are   *)
(* chosen so that the float quotients and products of the code are the     *)
(* integer ones of the model.                                              *)
(*                                                                         *)
(* Time.  A task is either in a vTaskDelay (its timer is positive) or      *)
(* executing; the statements between two sleeps take no time, so time      *)
(* advances (Tick) only while the render task sleeps and the control task  *)
(* sleeps or has no call in progress.                                      *)
(***************************************************************************)
EXTENDS Integers, Sequences, FiniteSets, TLC

VARIABLES
    rend,              \* Renderer: the configuration and flag fields
    currentAnimation,  \* Renderer::currentAnimation (name_, nameHash_, frames_)
    screen,            \* Renderer::screen: the strip, [shown, staged] colours per LED
    mutex_,            \* Renderer::mutex_: "free" or the task that holds it for good
    rpc,               \* render task: position in renderTask / render / interruptableDelay
    tstate,            \* renderTask: RenderState state (the fields it reads)
    state,             \* render: RenderState state
    previousNameHash,  \* render: previousNameHash
    frameCount,        \* render: frameCount
    frameindex,        \* render: frameindex
    dl,                \* interruptableDelay: its parameters, locals and caller
    rTimer,            \* render task: milliseconds left of the current vTaskDelay
    cpc,               \* control task: position
    cArg,              \* control task: the Animation passed to setAnimation
    cTimer,            \* control task: milliseconds left of the current vTaskDelay
    wr,                \* writeFrameToScreen: the frame being written and the pixel reached
    old,               \* the Renderer of the older render.h: LEDCOUNT and SCREEN
    objs,              \* a caller's Animation objects a and b and its Pixel p
    oldObjs,           \* the same of the older animation.h, and the heap of their FRAMES
    asg,               \* two contexts assigning a and b into each other, and the Animations' mutex_
    cloc,              \* control task: the Pixel of setPixelColor, the counter of initializeScreen
    gen,               \* a caller of the animation generators: the call made and the frames returned
    bar,               \* the older Renderer under updateMovingBarAnimation: LEDCOUNT, barStart,
                       \* barEnd and the frames of CURRENTANIMATION
    mov,               \* the older Renderer with the Moving Bar under two tasks: its two
                       \* locks, its frames, and the positions of render() and of
                       \* updateMovingBarAnimation
    menu,              \* MenuSystem: currentState and the last call it made on the Renderer
    hist               \* history of the run, read by the properties only

vars == <<rend, currentAnimation, screen, mutex_, rpc, tstate, state,
          previousNameHash, frameCount, frameindex, dl, rTimer,
          cpc, cArg, cTimer, wr, old, objs, oldObjs, asg, cloc, gen, bar, mov, menu, hist>>

renderLocals == <<tstate, state, previousNameHash, frameCount, frameindex>>
passLocals   == <<state, previousNameHash, frameCount, frameindex>>
controlVars  == <<cpc, cArg, cTimer>>
\* what the render task and the control task of the system never touch
animVars     == <<objs, oldObjs>>
genVars      == <<gen, bar, mov, menu>>
extraVars    == <<asg, cloc, genVars>>
otherVars    == <<wr, old, animVars, extraVars>>

Min(a, b) == IF a <= b THEN a ELSE b
Max(a, b) == IF a >= b THEN a ELSE b

-----------------------------------------------------------------------------
(* Bounds of the model *)

\* the longest animation of the catalogue has this many frames
MaxFrames == 3

\* largest total and largest check interval of the stand-alone delay runs
MaxDelayMs == 7
MaxCheckMs == 3

-----------------------------------------------------------------------------
(* Program constants *)

DefaultLedCount == 10
DefaultPin == 42
DefaultFrameDelayMs == 50
DefaultRepeatDelayMs == 50
DefaultSpeedCoef == 10
DefaultPeakBrightnessCoef == 40
DefaultCheckEveryMs == 10
MinSpeedCoef == 1
DjbSeed == 5381
HalfModulus == 65536

-----------------------------------------------------------------------------
(* animation.h: Pixel, Frame, FrameBuffer, Animation *)

Pixel(idx, red, green, blue) == [index |-> idx, r |-> red, g |-> green, b |-> blue]

\* a uint32_t is kept as its two 16-bit halves <<high, low>>
\* hash = ((hash << 5) + hash) + c, modulo 2^32
HashStep(hash, c) ==
    LET low == hash[2] * 33 + c
        high == hash[1] * 33 + (low \div HalfModulus)
    IN << high % HalfModulus, low % HalfModulus >>

RECURSIVE hash_string_runtime_from(_, _, _)
hash_string_runtime_from(str, i, hash) ==
    IF i > Len(str) THEN hash
    ELSE hash_string_runtime_from(str, i + 1, HashStep(hash, str[i]))

\* uint32_t hash = 5381; for each byte of str: hash = ((hash << 5) + hash) + str[i]
hash_string_runtime(str) == hash_string_runtime_from(str, 1, <<0, DjbSeed>>)

\* an assignment that copies every member
PixelAssign_WithIndex(p, other) == other

\* Pixel::operator=(const Pixel&): the colour of other, the index stays
PixelAssign(p, other) == [p EXCEPT !.r = other.r, !.g = other.g, !.b = other.b]

\* the capacities of a FrameBuffer built by copy construction from frames:
\* each vector holds exactly its elements
CapacityOf(frames) ==
    [outer |-> Len(frames), inner |-> [k \in 1..Len(frames) |-> Len(frames[k])]]

\* Frame& Frame::operator=(const Frame& src) on a Frame of capacity cap:
\* a longer src is copy-constructed into new storage; otherwise the elements
\* that exist are assigned with Pixel::operator= and the rest copy-constructed
FrameAssign(dst, cap, src) ==
    IF Len(src) > cap
    THEN [v |-> src, cap |-> Len(src)]
    ELSE [v |-> [k \in 1..Len(src) |->
                    IF k <= Len(dst) THEN PixelAssign(dst[k], src[k]) ELSE src[k]],
          cap |-> cap]

\* FrameBuffer& FrameBuffer::operator=(const FrameBuffer& src): the same, the
\* elements being Frames
FrameBufferAssign(dst, cap, src) ==
    IF Len(src) > cap.outer
    THEN [v |-> src, cap |-> CapacityOf(src)]
    ELSE LET el(k) == IF k <= Len(dst)
                      THEN FrameAssign(dst[k], cap.inner[k], src[k])
                      ELSE [v |-> src[k], cap |-> Len(src[k])]
         IN [v |-> [k \in 1..Len(src) |-> el(k).v],
             cap |-> [outer |-> cap.outer,
                      inner |-> [k \in 1..Len(src) |-> el(k).cap]]]

\* Animation(namestr, frames); cap_ is the storage frames_ has allocated
Animation(namestr, frames) ==
    [name_ |-> namestr, nameHash_ |-> hash_string_runtime(namestr),
     frames_ |-> frames, cap_ |-> CapacityOf(frames)]

\* names as byte strings: "NONE", "aB", "b!" (same DJB2 hash as "aB"), "c"
NameNONE == <<78, 79, 78, 69>>
NameAB == <<97, 66>>
NameBbang == <<98, 33>>
NameC == <<99>>

\* Animation(): name "NONE", no frames
EmptyAnimation == Animation(NameNONE, <<>>)

\* Animation::operator=(const Animation&): name_ = other.name_;
\* nameHash_ = other.nameHash_; frames_ = other.frames_
AnimationAssign(self, other) ==
    LET fb == FrameBufferAssign(self.frames_, self.cap_, other.frames_)
    IN [name_ |-> other.name_, nameHash_ |-> other.nameHash_,
        frames_ |-> fb.v, cap_ |-> fb.cap]

\* a frame of two LEDs of the strip and one index beyond its end
TestFrame(k) ==
    << Pixel(0, 50 * k, 50 * k + 5, 50 * k + 10),
       Pixel(1, 50 * k + 10, 50 * k, 50 * k + 5),
       Pixel(12, 255, 255, 255) >>

FramesOf(n) == [k \in 1..n |-> TestFrame(k)]

\* TestFrame(2) with its last pixel one index further beyond the strip
FrameFar == [TestFrame(2) EXCEPT ![3] = Pixel(13, 255, 255, 255)]

\* a frame with pixels at 2, 5 and 7, and one that names LED 1 twice
Frame257 == << Pixel(2, 100, 120, 140), Pixel(5, 100, 120, 140), Pixel(7, 100, 120, 140) >>
FrameTwice == << Pixel(1, 20, 40, 60), Pixel(4, 80, 80, 80), Pixel(1, 200, 220, 240) >>

\* the animations the control task installs
Catalogue ==
    { Animation(NameAB, <<TestFrame(1), FrameFar>>),
      Animation(NameBbang, FramesOf(MaxFrames)),
      Animation(NameC, FramesOf(1)),
      EmptyAnimation }

-----------------------------------------------------------------------------
(* render.h: RenderState and Renderer *)

\* Renderer::outputState()
outputState ==
    [ exitEarly |-> rend.exitEarly,
      isRunning |-> rend.isRunning_,
      repeat |-> rend.repeat,
      ledCount |-> rend.ledCount,
      pin |-> rend.pin,
      frameDelayMs |-> rend.frameDelayMs,
      repeatDelayMs |-> rend.repeatDelayMs,
      speedCoefficient |-> rend.speedCoefficient,
      peakBrightnessCoefficient |-> rend.peakBrightnessCoefficient,
      currentAnimationName |-> currentAnimation.name_,
      currentAnimationHash |-> currentAnimation.nameHash_ ]

\* RenderState(): the default member values
RenderStateDefault ==
    [ exitEarly |-> FALSE,
      isRunning |-> FALSE,
      repeat |-> TRUE,
      ledCount |-> DefaultLedCount,
      pin |-> DefaultPin,
      frameDelayMs |-> DefaultFrameDelayMs,
      repeatDelayMs |-> DefaultRepeatDelayMs,
      speedCoefficient |-> DefaultSpeedCoef,
      peakBrightnessCoefficient |-> DefaultPeakBrightnessCoef,
      currentAnimationName |-> NameNONE,
      currentAnimationHash |-> <<0, 0>> ]

\* renderTask reads state.frameDelayMs and state.speedCoefficient only; the
\* other fields of its copy are never read and are not kept
TimingOf(s) == [frameDelayMs |-> s.frameDelayMs, speedCoefficient |-> s.speedCoefficient]

\* Renderer(ledCount = 10, pin = 42, 50, 50, 1.0f, 0.40f, repeat = true, running = false)
RendererInit ==
    [ exitEarly |-> FALSE,
      isRunning_ |-> FALSE,
      repeat |-> TRUE,
      pin |-> DefaultPin,
      ledCount |-> DefaultLedCount,
      frameDelayMs |-> DefaultFrameDelayMs,
      repeatDelayMs |-> DefaultRepeatDelayMs,
      speedCoefficient |-> DefaultSpeedCoef,
      peakBrightnessCoefficient |-> DefaultPeakBrightnessCoef ]

Off == <<0, 0, 0>>

\* Adafruit_NeoPixel(ledCount, pin, ...): every LED dark, nothing staged
ScreenInit(n) == [shown |-> [i \in 0..(n - 1) |-> Off], staged |-> [i \in 0..(n - 1) |-> Off]]

\* the channel as stored, not scaled
Scale_Stored(c, coef) == c % 256

\* static_cast<uint8_t>(pixel.r * peakBrightnessCoefficient)
Scale(c, coef) == ((c * coef) \div 100) % 256

RECURSIVE StagePixels(_, _, _, _, _)
\* the loop of writeFrameToScreen: pixels with index >= ledCount are skipped
StagePixels(frame, i, staged, ledCount, coef) ==
    IF i > Len(frame) THEN staged
    ELSE LET pixel == frame[i]
             next ==
                 IF pixel.index >= ledCount \/ pixel.index \notin DOMAIN staged
                 THEN staged
                 ELSE [staged EXCEPT ![pixel.index] =
                          << Scale(pixel.r, coef), Scale(pixel.g, coef), Scale(pixel.b, coef) >>]
         IN StagePixels(frame, i + 1, next, ledCount, coef)

\* Renderer::writeFrameToScreen(frame): stage every pixel, then one show()
writeFrameToScreen(frame) ==
    LET staged == StagePixels(frame, 1, screen.staged, rend.ledCount,
                              rend.peakBrightnessCoefficient)
    IN [shown |-> staged, staged |-> staged]

\* (unsigned long)(state.frameDelayMs / state.speedCoefficient)
FrameDelayOf(s) == (s.frameDelayMs * 10) \div s.speedCoefficient

-----------------------------------------------------------------------------
(* History of the run (no counterpart in the program) *)

HistInit ==
    [ passWrites |-> <<>>,    \* frame indices written by the pass in progress
      wroteStopped |-> FALSE, \* a frame was written since isRunning_ last became false
      installed |-> FALSE,    \* setAnimation returned a non-empty animation, no call since
      shown0 |-> FALSE,       \* ... and a frame 0 was written since
      pending |-> FALSE,      \* ... under another name, swapped in during a frame delay,
                              \*     and no frame was written since
      late |-> 0,             \* slices completed by this delay since exitEarly was true
      slept |-> 0,            \* ms slept by this delay
      polls |-> 0,            \* polls of exitEarly made by this delay
      sawTrue |-> FALSE,      \* a poll of this delay saw exitEarly true
      atLock |-> [ledCount |-> 0, coef |-> 0, staged |-> <<>>],
                              \* ledCount, brightness and staged colours when
                              \* writeFrameToScreen took the mutex
      flushes |-> 0 ]         \* show() calls made by this writeFrameToScreen

\* a control call begins: what the history says of the calls before is over
HistCall(h) == [h EXCEPT !.installed = FALSE, !.shown0 = FALSE, !.pending = FALSE]

\* isRunning_ is set
HistRunning(h, running) == [h EXCEPT !.wroteStopped = @ /\ ~running]

-----------------------------------------------------------------------------
(* render.h: Renderer::interruptableDelay, entered from render() and from  *)
(* renderTask                                                              *)

DelayIdle == [site |-> "none", milliseconds |-> 0, checkEveryMs |-> 0,
              checks |-> 0, remainder |-> 0, i |-> 0, ret |-> FALSE]

\* entry: checks = milliseconds / checkEveryMs, remainder = milliseconds % checkEveryMs
DelayEnter(site, milliseconds, checkEveryMs) ==
    [site |-> site, milliseconds |-> milliseconds, checkEveryMs |-> checkEveryMs,
     checks |-> milliseconds \div checkEveryMs,
     remainder |-> milliseconds % checkEveryMs, i |-> 0, ret |-> FALSE]

HistDelayReset(h) == [h EXCEPT !.late = 0, !.slept = 0, !.polls = 0, !.sawTrue = FALSE]

\* a poll of Renderer::getEarlyExit() by interruptableDelay
HistPoll(h) == [h EXCEPT !.polls = @ + 1, !.sawTrue = @ \/ rend.exitEarly]

\* a vTaskDelay of ms by interruptableDelay is over
HistSlept(h, ms) == [h EXCEPT !.slept = @ + ms,
                              !.late = IF rend.exitEarly THEN Min(@ + 1, 2) ELSE @]

DelayPcs == {"d_loop", "d_sleep", "d_rsleep", "d_final", "d_ret"}

\* the loop without its poll: every slice is slept whatever exitEarly says
DelayLoopPoll_Deaf ==
    /\ rpc = "d_loop"
    /\ dl.i < dl.checks
    /\ mutex_ = "free"
    /\ dl' = dl
    /\ rpc' = "d_sleep"
    /\ rTimer' = dl.checkEveryMs
    /\ hist' = HistPoll(hist)
    /\ UNCHANGED <<otherVars, rend, currentAnimation, screen, mutex_, renderLocals, controlVars>>

\* for (i = 0; i < checks; i++) { interrupted = getEarlyExit(); if (interrupted) return true;
\*                                vTaskDelay(checkEveryMs); }
DelayLoopPoll ==
    /\ rpc = "d_loop"
    /\ dl.i < dl.checks
    /\ mutex_ = "free"
    /\ IF rend.exitEarly
       THEN /\ dl' = [dl EXCEPT !.ret = TRUE]
            /\ rpc' = "d_ret"
            /\ rTimer' = 0
       ELSE /\ dl' = dl
            /\ rpc' = "d_sleep"
            /\ rTimer' = dl.checkEveryMs
    /\ hist' = HistPoll(hist)
    /\ UNCHANGED <<otherVars, rend, currentAnimation, screen, mutex_, renderLocals, controlVars>>

\* the vTaskDelay of one slice is over: i++
DelayLoopWake ==
    /\ rpc = "d_sleep"
    /\ rTimer = 0
    /\ dl' = [dl EXCEPT !.i = @ + 1]
    /\ rpc' = "d_loop"
    /\ hist' = HistSlept(hist, dl.checkEveryMs)
    /\ UNCHANGED <<otherVars, rend, currentAnimation, screen, mutex_, renderLocals, rTimer, controlVars>>

\* if (remainder > 0) { interrupted = getEarlyExit(); if (interrupted) return true;
\*                      vTaskDelay(remainder); }
DelayRemainderPoll ==
    /\ rpc = "d_loop"
    /\ dl.i >= dl.checks
    /\ dl.remainder > 0
    /\ mutex_ = "free"
    /\ IF rend.exitEarly
       THEN /\ dl' = [dl EXCEPT !.ret = TRUE]
            /\ rpc' = "d_ret"
            /\ rTimer' = 0
       ELSE /\ dl' = dl
            /\ rpc' = "d_rsleep"
            /\ rTimer' = dl.remainder
    /\ hist' = HistPoll(hist)
    /\ UNCHANGED <<otherVars, rend, currentAnimation, screen, mutex_, renderLocals, controlVars>>

\* the vTaskDelay of the remainder is over
DelayRemainderWake ==
    /\ rpc = "d_rsleep"
    /\ rTimer = 0
    /\ rpc' = "d_final"
    /\ hist' = HistSlept(hist, dl.remainder)
    /\ UNCHANGED <<otherVars, rend, currentAnimation, screen, mutex_, renderLocals, dl, rTimer, controlVars>>

\* the final poll dropped: return false once the duration has elapsed
DelayFinalPoll_False ==
    /\ \/ rpc = "d_final"
       \/ rpc = "d_loop" /\ dl.i >= dl.checks /\ dl.remainder = 0
    /\ mutex_ = "free"
    /\ dl' = [dl EXCEPT !.ret = FALSE]
    /\ rpc' = "d_ret"
    /\ hist' = HistPoll(hist)
    /\ UNCHANGED <<otherVars, rend, currentAnimation, screen, mutex_, renderLocals, rTimer, controlVars>>

\* interrupted = getEarlyExit(); return interrupted;
DelayFinalPoll ==
    /\ \/ rpc = "d_final"
       \/ rpc = "d_loop" /\ dl.i >= dl.checks /\ dl.remainder = 0
    /\ mutex_ = "free"
    /\ dl' = [dl EXCEPT !.ret = rend.exitEarly]
    /\ rpc' = "d_ret"
    /\ hist' = HistPoll(hist)
    /\ UNCHANGED <<otherVars, rend, currentAnimation, screen, mutex_, renderLocals, rTimer, controlVars>>

\* where the caller continues once interruptableDelay has returned v
\*   render:     if (interruptableDelay(..)) { setEarlyExit(false); return ..; }  if (!state.repeat) ..
\*   renderTask: if (interruptableDelay(..)) setEarlyExit(false);
DelayReturnPc(site, v) ==
    CASE site = "render" /\ v -> "r_clear"
      [] site = "render" /\ ~v -> "r_repeat"
      [] site = "task" /\ v -> "t_clear"
      [] site = "task" /\ ~v -> "t_check"
      [] OTHER -> "call"

\* interruptableDelay returns to its caller; its locals are gone
DelayReturn ==
    /\ rpc = "d_ret"
    /\ rpc' = DelayReturnPc(dl.site, dl.ret)
    /\ dl' = DelayIdle
    /\ hist' = HistDelayReset(hist)
    /\ UNCHANGED <<otherVars, rend, currentAnimation, screen, mutex_, renderLocals, rTimer, controlVars>>

interruptableDelay ==
    \/ DelayLoopPoll
    \/ DelayLoopWake
    \/ DelayRemainderPoll
    \/ DelayRemainderWake
    \/ DelayFinalPoll
    \/ DelayReturn

-----------------------------------------------------------------------------
(* render.cpp: render(Renderer&), and ESP32Animator.ino: renderTask *)

\* the pass holds the frame buffer reference and may read through it again
Iterating ==
    \/ rpc \in {"r_loop", "r_write", "r_repeat"}
    \/ rpc \in DelayPcs /\ dl.site = "render"

\* the pass is in the delay that follows a frame write
InFrameDelay == rpc \in DelayPcs /\ dl.site = "render"

\* what frames[frameindex] denotes; past the end of the buffer the read is
\* out of bounds and yields an empty frame or whatever frame the memory holds
FrameRead(idx) ==
    IF idx < Len(currentAnimation.frames_)
    THEN {currentAnimation.frames_[idx + 1]}
    ELSE {<<>>} \cup {TestFrame(k) : k \in 1..MaxFrames}

\* the locals of render() once it has returned
PassLocalsGone ==
    /\ state' = RenderStateDefault
    /\ previousNameHash' = <<0, 0>>
    /\ frameCount' = 0
    /\ frameindex' = 0

\* renderTask: RenderState state = renderer.outputState();
TaskInit ==
    /\ rpc = "t_init"
    /\ mutex_ = "free"
    /\ tstate' = TimingOf(outputState)
    /\ rpc' = "t_check"
    /\ UNCHANGED <<otherVars, rend, currentAnimation, screen, mutex_, passLocals, dl, rTimer,
                   controlVars, hist>>

\* renderTask: if (renderer.isRunning()) state = render(renderer);
TaskCheckRunning ==
    /\ rpc = "t_check"
    /\ mutex_ = "free"
    /\ rpc' = IF rend.isRunning_ THEN "r_running" ELSE "t_delay"
    /\ UNCHANGED <<otherVars, rend, currentAnimation, screen, mutex_, renderLocals, dl, rTimer,
                   controlVars, hist>>

RenderCheckRunning_Deaf ==
    /\ rpc = "r_running"
    /\ mutex_ = "free"
    /\ rpc' = "r_empty"
    /\ UNCHANGED <<otherVars, rend, currentAnimation, screen, mutex_, renderLocals, dl, rTimer,
                   controlVars, hist>>

\* render: if (!rend.isRunning()) return rend.outputState();
RenderCheckRunning ==
    /\ rpc = "r_running"
    /\ mutex_ = "free"
    /\ rpc' = IF rend.isRunning_ THEN "r_empty" ELSE "r_ret"
    /\ UNCHANGED <<otherVars, rend, currentAnimation, screen, mutex_, renderLocals, dl, rTimer,
                   controlVars, hist>>

\* render: if (rend.isAnimationEmpty()) return rend.outputState();
RenderCheckEmpty ==
    /\ rpc = "r_empty"
    /\ mutex_ = "free"
    /\ rpc' = IF currentAnimation.frames_ = <<>> THEN "r_ret" ELSE "r_snap"
    /\ UNCHANGED <<otherVars, rend, currentAnimation, screen, mutex_, renderLocals, dl, rTimer,
                   controlVars, hist>>

\* render: return rend.outputState(); the value is assigned to renderTask's state
RenderReturnState ==
    /\ rpc = "r_ret"
    /\ mutex_ = "free"
    /\ tstate' = TimingOf(outputState)
    /\ PassLocalsGone
    /\ rpc' = "t_delay"
    /\ hist' = [hist EXCEPT !.passWrites = <<>>]
    /\ UNCHANGED <<otherVars, rend, currentAnimation, screen, mutex_, dl, rTimer, controlVars>>

\* render: RenderState state = rend.outputState(); previousNameHash = currentNameHash
RenderSnapshot ==
    /\ rpc = "r_snap"
    /\ mutex_ = "free"
    /\ state' = outputState
    /\ previousNameHash' = currentAnimation.nameHash_
    /\ rpc' = "r_frames"
    /\ UNCHANGED <<otherVars, rend, currentAnimation, screen, mutex_, tstate, frameCount, frameindex,
                   dl, rTimer, controlVars, hist>>

\* render: frames = rend.getCurrentAnimationFrames(); frameCount = frames.size();
\*         if (frameCount == 0) return rend.outputState();
RenderGetFrames ==
    /\ rpc = "r_frames"
    /\ mutex_ = "free"
    /\ frameCount' = Len(currentAnimation.frames_)
    /\ frameindex' = 0
    /\ rpc' = IF Len(currentAnimation.frames_) = 0 THEN "r_ret" ELSE "r_loop"
    /\ UNCHANGED <<otherVars, rend, currentAnimation, screen, mutex_, tstate, state, previousNameHash,
                   dl, rTimer, controlVars, hist>>

\* the loop head and checks without the tests of state.isRunning
RenderLoopHead_Blind ==
    /\ rpc = "r_loop"
    /\ IF ~(frameindex < frameCount)
       THEN /\ tstate' = TimingOf(state)
            /\ PassLocalsGone
            /\ rpc' = "t_delay"
            /\ hist' = [hist EXCEPT !.passWrites = <<>>]
       ELSE /\ UNCHANGED <<renderLocals, hist>>
            /\ rpc' = IF state.currentAnimationHash # previousNameHash
                      THEN "r_ret" ELSE "r_write"
    /\ UNCHANGED <<otherVars, rend, currentAnimation, screen, mutex_, dl, rTimer, controlVars>>

\* render: the head of the for loop and the two checks on the snapshot:
\*   frameindex < frameCount && state.isRunning, else return state;
\*   hash changed, or not running: return rend.outputState()
RenderLoopHead ==
    /\ rpc = "r_loop"
    /\ IF ~(frameindex < frameCount /\ state.isRunning)
       THEN /\ tstate' = TimingOf(state)
            /\ PassLocalsGone
            /\ rpc' = "t_delay"
            /\ hist' = [hist EXCEPT !.passWrites = <<>>]
       ELSE /\ UNCHANGED <<renderLocals, hist>>
            /\ rpc' = IF state.currentAnimationHash # previousNameHash \/ ~state.isRunning
                      THEN "r_ret" ELSE "r_write"
    /\ UNCHANGED <<otherVars, rend, currentAnimation, screen, mutex_, dl, rTimer, controlVars>>

\* render: frame = frames[frameindex]; rend.writeFrameToScreen(frame);
\*         then interruptableDelay(state.frameDelayMs / state.speedCoefficient) is entered
RenderWriteFrame ==
    /\ rpc = "r_write"
    /\ mutex_ = "free"
    /\ \E frame \in FrameRead(frameindex) : screen' = writeFrameToScreen(frame)
    /\ dl' = DelayEnter("render", FrameDelayOf(state), DefaultCheckEveryMs)
    /\ rpc' = "d_loop"
    /\ hist' = [hist EXCEPT !.passWrites = Append(@, frameindex),
                            !.wroteStopped = ~rend.isRunning_,
                            !.shown0 = hist.installed /\ (@ \/ frameindex = 0),
                            !.pending = FALSE]
    /\ UNCHANGED <<otherVars, rend, currentAnimation, mutex_, renderLocals, rTimer, controlVars>>

\* render: the delay was interrupted: rend.setEarlyExit(false); return rend.outputState();
RenderClearEarlyExit ==
    /\ rpc = "r_clear"
    /\ mutex_ = "free"
    /\ rend' = [rend EXCEPT !.exitEarly = FALSE]
    /\ rpc' = "r_ret"
    /\ UNCHANGED <<otherVars, currentAnimation, screen, mutex_, renderLocals, dl, rTimer,
                   controlVars, hist>>

\* render: if (!state.repeat) { rend.setRunning(false); return rend.outputState(); }
RenderStopNoRepeat ==
    /\ rpc = "r_repeat"
    /\ ~state.repeat
    /\ mutex_ = "free"
    /\ rend' = [rend EXCEPT !.isRunning_ = FALSE]
    /\ rpc' = "r_ret"
    /\ hist' = HistRunning(hist, FALSE)
    /\ UNCHANGED <<otherVars, currentAnimation, screen, mutex_, renderLocals, dl, rTimer, controlVars>>

RenderNextFrame_Skip ==
    /\ rpc = "r_repeat"
    /\ state.repeat
    /\ mutex_ = "free"
    /\ previousNameHash' = state.currentAnimationHash
    /\ state' = outputState
    /\ frameindex' = frameindex + 2
    /\ rpc' = "r_loop"
    /\ UNCHANGED <<otherVars, rend, currentAnimation, screen, mutex_, tstate, frameCount, dl, rTimer,
                   controlVars, hist>>

\* render: previousNameHash = state.currentAnimationHash; state = rend.outputState();
\*         frameindex++
RenderNextFrame ==
    /\ rpc = "r_repeat"
    /\ state.repeat
    /\ mutex_ = "free"
    /\ previousNameHash' = state.currentAnimationHash
    /\ state' = outputState
    /\ frameindex' = frameindex + 1
    /\ rpc' = "r_loop"
    /\ UNCHANGED <<otherVars, rend, currentAnimation, screen, mutex_, tstate, frameCount, dl, rTimer,
                   controlVars, hist>>

\* renderTask: interruptableDelay(state.frameDelayMs / state.speedCoefficient) is entered
TaskDelay ==
    /\ rpc = "t_delay"
    /\ dl' = DelayEnter("task", FrameDelayOf(tstate), DefaultCheckEveryMs)
    /\ rpc' = "d_loop"
    /\ UNCHANGED <<otherVars, rend, currentAnimation, screen, mutex_, renderLocals, rTimer,
                   controlVars, hist>>

\* renderTask: the delay was interrupted: renderer.setEarlyExit(false);
TaskClearEarlyExit ==
    /\ rpc = "t_clear"
    /\ mutex_ = "free"
    /\ rend' = [rend EXCEPT !.exitEarly = FALSE]
    /\ rpc' = "t_check"
    /\ UNCHANGED <<otherVars, currentAnimation, screen, mutex_, renderLocals, dl, rTimer,
                   controlVars, hist>>

render ==
    \/ RenderCheckRunning
    \/ RenderCheckEmpty
    \/ RenderReturnState
    \/ RenderSnapshot
    \/ RenderGetFrames
    \/ RenderLoopHead
    \/ RenderWriteFrame
    \/ RenderClearEarlyExit
    \/ RenderStopNoRepeat
    \/ RenderNextFrame

renderTask ==
    \/ TaskInit
    \/ TaskCheckRunning
    \/ render
    \/ TaskDelay
    \/ interruptableDelay
    \/ TaskClearEarlyExit

-----------------------------------------------------------------------------
(* The control task: calls of the Renderer's mutators (render.h) *)

\* inputs of the control task
SpeedInputs == {20}
RepeatDelayInputs == {20}

\* Renderer::setAnimation, first block: isRunning_ = false; then
\* vTaskDelay(repeatDelayMs) begins
SetAnimationStop(anim) ==
    /\ cpc = "idle"
    /\ mutex_ = "free"
    /\ rend' = [rend EXCEPT !.isRunning_ = FALSE]
    /\ cArg' = anim
    /\ cTimer' = rend.repeatDelayMs
    /\ cpc' = "sa_wait"
    /\ hist' = HistRunning(HistCall(hist), FALSE)
    /\ UNCHANGED <<otherVars, currentAnimation, screen, mutex_, rpc, renderLocals, dl, rTimer>>

\* Renderer::setAnimation, second block, once the vTaskDelay is over:
\* currentAnimation = anim; isRunning_ = true
SetAnimationSwap ==
    /\ cpc = "sa_wait"
    /\ cTimer = 0
    /\ mutex_ = "free"
    /\ currentAnimation' = AnimationAssign(currentAnimation, cArg)
    /\ rend' = [rend EXCEPT !.isRunning_ = TRUE]
    /\ cpc' = "idle"
    /\ cArg' = EmptyAnimation
    /\ hist' = [HistRunning(hist, TRUE) EXCEPT
                  !.installed = cArg.frames_ # <<>>,
                  !.shown0 = FALSE,
                  !.pending = /\ InFrameDelay
                              /\ cArg.frames_ # <<>>
                              /\ cArg.name_ # currentAnimation.name_]
    /\ UNCHANGED <<otherVars, screen, mutex_, rpc, renderLocals, dl, rTimer, cTimer>>

\* Renderer::setRunning(running)
SetRunning(running) ==
    /\ cpc = "idle"
    /\ mutex_ = "free"
    /\ rend' = [rend EXCEPT !.isRunning_ = running]
    /\ hist' = HistRunning(HistCall(hist), running)
    /\ UNCHANGED <<otherVars, currentAnimation, screen, mutex_, rpc, renderLocals, dl, rTimer,
                   controlVars>>

\* Renderer::setRepeat(repeat): with the lock_guard held, repeat is stored and
\* for repeat == true setRunning(true) is called, which locks mutex_ again:
\* the call never returns and the mutex stays taken
SetRepeat(repeat) ==
    /\ cpc = "idle"
    /\ mutex_ = "free"
    /\ rend' = [rend EXCEPT !.repeat = repeat]
    /\ mutex_' = IF repeat THEN "control" ELSE "free"
    /\ cpc' = IF repeat THEN "blocked" ELSE "idle"
    /\ hist' = HistCall(hist)
    /\ UNCHANGED <<otherVars, currentAnimation, screen, rpc, renderLocals, dl, rTimer, cArg, cTimer>>

\* the speed stored as given
SetSpeed_NoFloor(speed) ==
    /\ cpc = "idle"
    /\ mutex_ = "free"
    /\ rend' = [rend EXCEPT !.speedCoefficient = speed]
    /\ hist' = HistCall(hist)
    /\ UNCHANGED <<otherVars, currentAnimation, screen, mutex_, rpc, renderLocals, dl, rTimer,
                   controlVars>>

\* Renderer::setSpeed(speed): speedCoefficient = std::max(0.1f, speed)
SetSpeed(speed) ==
    /\ cpc = "idle"
    /\ mutex_ = "free"
    /\ rend' = [rend EXCEPT !.speedCoefficient = Max(MinSpeedCoef, speed)]
    /\ hist' = HistCall(hist)
    /\ UNCHANGED <<otherVars, currentAnimation, screen, mutex_, rpc, renderLocals, dl, rTimer,
                   controlVars>>

\* Renderer::setEarlyExit(exit)
SetEarlyExit(exit) ==
    /\ cpc = "idle"
    /\ mutex_ = "free"
    /\ rend' = [rend EXCEPT !.exitEarly = exit]
    /\ hist' = HistCall(hist)
    /\ UNCHANGED <<otherVars, currentAnimation, screen, mutex_, rpc, renderLocals, dl, rTimer,
                   controlVars>>

\* Renderer::setframeDelayms(ms): no lock is taken
SetFrameDelayMs(ms) ==
    /\ cpc = "idle"
    /\ rend' = [rend EXCEPT !.frameDelayMs = ms]
    /\ hist' = HistCall(hist)
    /\ UNCHANGED <<otherVars, currentAnimation, screen, mutex_, rpc, renderLocals, dl, rTimer,
                   controlVars>>

\* Renderer::setrepeatDelayms(ms): no lock is taken
SetRepeatDelayMs(ms) ==
    /\ cpc = "idle"
    /\ rend' = [rend EXCEPT !.repeatDelayMs = ms]
    /\ hist' = HistCall(hist)
    /\ UNCHANGED <<otherVars, currentAnimation, screen, mutex_, rpc, renderLocals, dl, rTimer,
                   controlVars>>

controlTask ==
    \/ \E anim \in Catalogue : SetAnimationStop(anim)
    \/ SetAnimationSwap
    \/ \E running \in BOOLEAN : SetRunning(running)
    \/ \E repeat \in BOOLEAN : SetRepeat(repeat)
    \/ \E speed \in SpeedInputs : SetSpeed(speed)
    \/ SetEarlyExit(TRUE)
    \/ \E ms \in RepeatDelayInputs : SetRepeatDelayMs(ms)

-----------------------------------------------------------------------------
(* render.h: Renderer::writeFrameToScreen pixel by pixel, and the mutators *)
(* of the strip and of the brightness                                      *)

WriteIdle == [frame |-> <<>>, i |-> 0]

\* frames handed to writeFrameToScreen
ScreenFrames == {TestFrame(1), Frame257, FrameTwice}

\* inputs of the mutators: brightness in hundredths, LED counts as the int the
\* caller passes
BrightnessInputs == {-50, 0, 50, 100, 150}
LedCountInputs == {0, 5, 8, 65536, 65541}
Uint16Modulus == 65536
Uint8Modulus == 256

\* the render task calls writeFrameToScreen(frame)
WriteCall(frame) ==
    /\ rpc = "w_idle"
    /\ wr' = [frame |-> frame, i |-> 0]
    /\ rpc' = "w_lock"
    /\ hist' = [hist EXCEPT !.flushes = 0]
    /\ UNCHANGED <<animVars, extraVars, old, rend, currentAnimation, screen, mutex_, renderLocals, dl, rTimer,
                   controlVars>>

\* the call without the lock_guard
WriteLock_NoLock ==
    /\ rpc = "w_lock"
    /\ mutex_ = "free"
    /\ mutex_' = "free"
    /\ wr' = [wr EXCEPT !.i = 1]
    /\ rpc' = "w_pixel"
    /\ hist' = [hist EXCEPT !.atLock = [ledCount |-> rend.ledCount,
                                        coef |-> rend.peakBrightnessCoefficient,
                                        staged |-> screen.staged]]
    /\ UNCHANGED <<animVars, extraVars, old, rend, currentAnimation, screen, renderLocals, dl, rTimer,
                   controlVars>>

\* std::lock_guard<std::mutex> lock(mutex_);
WriteLock ==
    /\ rpc = "w_lock"
    /\ mutex_ = "free"
    /\ mutex_' = "render"
    /\ wr' = [wr EXCEPT !.i = 1]
    /\ rpc' = "w_pixel"
    /\ hist' = [hist EXCEPT !.atLock = [ledCount |-> rend.ledCount,
                                        coef |-> rend.peakBrightnessCoefficient,
                                        staged |-> screen.staged]]
    /\ UNCHANGED <<animVars, extraVars, old, rend, currentAnimation, screen, renderLocals, dl, rTimer,
                   controlVars>>

\* the turn of the loop with the test pixel.index >= ledCount - 1
WritePixel_OffByOne ==
    /\ rpc = "w_pixel"
    /\ wr.i <= Len(wr.frame)
    /\ screen' = [screen EXCEPT !.staged =
                     StagePixels(<<wr.frame[wr.i]>>, 1, @, rend.ledCount - 1,
                                 rend.peakBrightnessCoefficient)]
    /\ wr' = [wr EXCEPT !.i = @ + 1]
    /\ UNCHANGED <<animVars, extraVars, old, rend, currentAnimation, mutex_, rpc, renderLocals, dl, rTimer,
                   controlVars, hist>>

\* one turn of: for (const Pixel& pixel : frame) { if (pixel.index >= ledCount) continue;
\*                                                screen.setPixelColor(...scaled...); }
WritePixel ==
    /\ rpc = "w_pixel"
    /\ wr.i <= Len(wr.frame)
    /\ screen' = [screen EXCEPT !.staged =
                     StagePixels(<<wr.frame[wr.i]>>, 1, @, rend.ledCount,
                                 rend.peakBrightnessCoefficient)]
    /\ wr' = [wr EXCEPT !.i = @ + 1]
    /\ UNCHANGED <<animVars, extraVars, old, rend, currentAnimation, mutex_, rpc, renderLocals, dl, rTimer,
                   controlVars, hist>>

\* screen.show(); the lock_guard goes out of scope
WriteShow ==
    /\ rpc = "w_pixel"
    /\ wr.i > Len(wr.frame)
    /\ screen' = [shown |-> screen.staged, staged |-> screen.staged]
    /\ mutex_' = "free"
    /\ rpc' = "w_idle"
    /\ wr' = WriteIdle
    /\ hist' = [hist EXCEPT !.flushes = @ + 1, !.atLock = HistInit.atLock]
    /\ UNCHANGED <<animVars, extraVars, old, rend, currentAnimation, renderLocals, dl, rTimer, controlVars>>

\* the brightness stored as given
SetPeakBrightness_NoClamp(brightness) ==
    /\ cpc = "idle"
    /\ mutex_ = "free"
    /\ rend' = [rend EXCEPT !.peakBrightnessCoefficient = brightness]
    /\ hist' = HistCall(hist)
    /\ UNCHANGED <<otherVars, currentAnimation, screen, mutex_, rpc, renderLocals, dl, rTimer,
                   controlVars>>

\* Renderer::setPeakBrightness(brightness): std::clamp(brightness, 0.0f, 1.0f)
SetPeakBrightness(brightness) ==
    /\ cpc = "idle"
    /\ mutex_ = "free"
    /\ rend' = [rend EXCEPT !.peakBrightnessCoefficient = Max(0, Min(100, brightness))]
    /\ hist' = HistCall(hist)
    /\ UNCHANGED <<otherVars, currentAnimation, screen, mutex_, rpc, renderLocals, dl, rTimer,
                   controlVars>>

\* Renderer::setLedCount(uint16_t count) called with the int n: the argument
\* is converted to uint16_t; if (count == 0 || count > 65535) return;
\* ledCount = count; screen.updateLength(ledCount) leaves ledCount dark staged LEDs
SetLedCount(n) ==
    /\ cpc = "idle"
    /\ mutex_ = "free"
    /\ LET count == n % Uint16Modulus
       IN IF count = 0 \/ count > Uint16Modulus - 1
          THEN UNCHANGED <<rend, screen>>
          ELSE /\ rend' = [rend EXCEPT !.ledCount = count]
               /\ screen' = [screen EXCEPT !.staged = [i \in 0..(count - 1) |-> Off]]
    /\ hist' = HistCall(hist)
    /\ UNCHANGED <<otherVars, currentAnimation, mutex_, rpc, renderLocals, dl, rTimer,
                   controlVars>>

\* Renderer::clearScreen(): screen.clear()
ClearScreen ==
    /\ cpc = "idle"
    /\ mutex_ = "free"
    /\ screen' = [screen EXCEPT !.staged = [i \in DOMAIN @ |-> Off]]
    /\ hist' = HistCall(hist)
    /\ UNCHANGED <<otherVars, rend, currentAnimation, mutex_, rpc, renderLocals, dl, rTimer,
                   controlVars>>

\* Renderer::showScreen(): screen.show()
ShowScreen ==
    /\ cpc = "idle"
    /\ mutex_ = "free"
    /\ screen' = [screen EXCEPT !.shown = screen.staged]
    /\ hist' = HistCall(hist)
    /\ UNCHANGED <<otherVars, rend, currentAnimation, mutex_, rpc, renderLocals, dl, rTimer,
                   controlVars>>


\* the control task's locals: no Pixel in hand, counter at 0
NoPixel == Pixel(0, 0, 0, 0)
ControlLocalsInit == [pixel |-> NoPixel, i |-> 0]

\* pixels handed to setPixelColor: on the strip and beyond it
SetPixelInputs == { Pixel(1, 10, 20, 30), Pixel(12, 10, 20, 30) }

notControl == <<genVars, wr, old, animVars, asg, currentAnimation, rpc, renderLocals, dl, rTimer,
                cArg, cTimer>>

\* Renderer::setPixelColor(pixel): if (pixel.index >= ledCount) return;
\* ledCount is read before the lock_guard is constructed
SetPixelColorCheck(pixel) ==
    /\ cpc = "idle"
    /\ IF pixel.index >= rend.ledCount
       THEN UNCHANGED <<cpc, cloc>>
       ELSE cpc' = "spc_lock" /\ cloc' = [cloc EXCEPT !.pixel = pixel]
    /\ hist' = HistCall(hist)
    /\ UNCHANGED <<notControl, rend, screen, mutex_>>

\* Renderer::setPixelColor(pixel): under the lock_guard,
\* screen.setPixelColor(pixel.index, screen.Color(pixel.r, pixel.g, pixel.b))
SetPixelColorWrite ==
    /\ cpc = "spc_lock"
    /\ mutex_ = "free"
    /\ screen' = [screen EXCEPT !.staged =
                     IF cloc.pixel.index \in DOMAIN @
                     THEN [@ EXCEPT ![cloc.pixel.index] =
                              <<cloc.pixel.r, cloc.pixel.g, cloc.pixel.b>>]
                     ELSE @]
    /\ cpc' = "idle"
    /\ cloc' = [cloc EXCEPT !.pixel = NoPixel]
    /\ UNCHANGED <<notControl, rend, mutex_, hist>>

\* Renderer::initializeScreen(): the lock_guard, a new Adafruit_NeoPixel of
\* ledCount dark LEDs assigned to screen, screen.begin(), uint8_t i = 0
InitializeScreenLock ==
    /\ cpc = "idle"
    /\ mutex_ = "free"
    /\ mutex_' = "control"
    /\ screen' = [screen EXCEPT !.staged = [k \in 0..(rend.ledCount - 1) |-> Off]]
    /\ cloc' = [cloc EXCEPT !.i = 0]
    /\ cpc' = "is_loop"
    /\ hist' = HistCall(hist)
    /\ UNCHANGED <<notControl, rend>>

\* one turn of: for (uint8_t i = 0; i < ledCount; i++) screen.setPixelColor(i, 0)
InitializeScreenLoop ==
    /\ cpc = "is_loop"
    /\ cloc.i < rend.ledCount
    /\ screen' = [screen EXCEPT !.staged[cloc.i] = Off]
    /\ cloc' = [cloc EXCEPT !.i = (@ + 1) % Uint8Modulus]
    /\ UNCHANGED <<notControl, rend, mutex_, cpc, hist>>

\* the loop is over: screen.show(); the lock_guard goes out of scope
InitializeScreenShow ==
    /\ cpc = "is_loop"
    /\ cloc.i >= rend.ledCount
    /\ screen' = [shown |-> screen.staged, staged |-> screen.staged]
    /\ mutex_' = "free"
    /\ cpc' = "idle"
    /\ cloc' = [cloc EXCEPT !.i = 0]
    /\ UNCHANGED <<notControl, rend, hist>>

initializeScreen == InitializeScreenLock \/ InitializeScreenLoop \/ InitializeScreenShow

-----------------------------------------------------------------------------
(* The older render.h and render.cpp: a strip of maxLEDCount LEDs of which *)
(* LEDCOUNT are in use, and the pixel loop of the older render()           *)

OldMaxLEDCount == 50

\* Renderer(ledCount = 10, ...) and initScreen(): a dark strip of maxLEDCount LEDs
OldRendererInit ==
    [LEDCOUNT |-> DefaultLedCount, SCREEN |-> ScreenInit(OldMaxLEDCount),
     RUNNING |-> FALSE, PEAKBRIGHTNESS |-> DefaultPeakBrightnessCoef,
     pc |-> "idle", ledCount |-> 0,
     call |-> "none"]   \* the mutator called last (read by the properties only)

OldLedCountInputs == {5}
OldFrames == {Frame257}

\* Renderer::setPixelColor(pixel, r, g, b): if (pixel >= LEDCOUNT) return;
\* SCREEN.setPixelColor(pixel, SCREEN.Color(r, g, b))
OldSetPixelColor(staged, pixel, LEDCOUNT) ==
    IF pixel.index >= LEDCOUNT \/ pixel.index \notin DOMAIN staged
    THEN staged
    ELSE [staged EXCEPT ![pixel.index] = << pixel.r, pixel.g, pixel.b >>]

RECURSIVE OldRenderPixels(_, _, _, _, _)
\* for (pixelIdx ...) { pixel = frame[pixelIdx]; if (pixel[0] > ledCount) continue;
\*                      rend->setPixelColor(pixel[0], pixel[1], pixel[2], pixel[3]); }
OldRenderPixels(frame, i, staged, ledCount, LEDCOUNT) ==
    IF i > Len(frame) THEN staged
    ELSE LET pixel == frame[i]
             next == IF pixel.index > ledCount THEN staged
                     ELSE OldSetPixelColor(staged, pixel, LEDCOUNT)
         IN OldRenderPixels(frame, i + 1, next, ledCount, LEDCOUNT)

\* Renderer::setLEDCount(uint8_t count): LEDCOUNT = count; the strip keeps its length
OldSetLEDCount(count) ==
    /\ old.pc = "idle"
    /\ old' = [old EXCEPT !.LEDCOUNT = count % Uint8Modulus]
    /\ UNCHANGED <<animVars, extraVars, wr, rend, currentAnimation, screen, mutex_, rpc, renderLocals, dl, rTimer,
                   controlVars, hist>>

\* the older Renderer::setRunning(running)
OldSetRunning(running) ==
    /\ old.pc = "idle"
    /\ old' = [old EXCEPT !.RUNNING = running, !.call = "setRunning"]
    /\ UNCHANGED <<animVars, extraVars, wr, rend, currentAnimation, screen, mutex_, rpc, renderLocals, dl, rTimer,
                   controlVars, hist>>

\* the older Renderer::setPeakBrightness(brightness): RUNNING = false;
\* PEAKBRIGHTNESS = min(1.0f, max(0.0f, brightness)); then a vTaskDelay of REPEATDELAY
OldSetPeakBrightness(brightness) ==
    /\ old.pc = "idle"
    /\ old' = [old EXCEPT !.RUNNING = FALSE,
                          !.PEAKBRIGHTNESS = Min(100, Max(0, brightness)),
                          !.call = "setPeakBrightness"]
    /\ UNCHANGED <<animVars, extraVars, wr, rend, currentAnimation, screen, mutex_, rpc, renderLocals, dl, rTimer,
                   controlVars, hist>>

\* the older render(): ledCount = rend->LEDCOUNT; ... rend->clearScreen();
OldClearScreen ==
    /\ old.pc = "idle"
    /\ old' = [old EXCEPT !.pc = "cleared",
                          !.ledCount = old.LEDCOUNT,
                          !.SCREEN.staged = [i \in DOMAIN @ |-> Off]]
    /\ UNCHANGED <<animVars, extraVars, wr, rend, currentAnimation, screen, mutex_, rpc, renderLocals, dl, rTimer,
                   controlVars, hist>>

\* the older render(): the pixel loop over frames[frameIdx], then rend->SCREEN.show()
OldRenderFrame(frame) ==
    /\ old.pc = "cleared"
    /\ LET staged == OldRenderPixels(frame, 1, old.SCREEN.staged, old.ledCount, old.LEDCOUNT)
       IN old' = [old EXCEPT !.pc = "idle",
                             !.SCREEN = [shown |-> staged, staged |-> staged]]
    /\ UNCHANGED <<animVars, extraVars, wr, rend, currentAnimation, screen, mutex_, rpc, renderLocals, dl, rTimer,
                   controlVars, hist>>

-----------------------------------------------------------------------------
(* animation.h: the Animation objects a and b and the Pixel p of a caller, *)
(* and the Animation of the older animation.h, which holds its frames by   *)
(* pointer                                                                  *)

Objects == {"a", "b"}
Other(o) == IF o = "a" THEN "b" ELSE "a"

\* the members of an Animation before a constructor body has assigned them,
\* and the value kept for an object that is not alive
Unconstructed ==
    [name_ |-> <<>>, nameHash_ |-> <<0, 0>>, frames_ |-> <<>>, cap_ |-> CapacityOf(<<>>)]

\* the last call made on the objects
NoCall == [op |-> "none", o |-> "", arg |-> <<>>]
Call(op, o, arg) == [op |-> op, o |-> o, arg |-> arg]

ObjsInit ==
    [a |-> EmptyAnimation, b |-> Unconstructed, live |-> {"a"},
     p |-> Pixel(4, 1, 2, 3), last |-> NoCall]

\* names, frame buffers and pixels handed to the calls
OnePixel == << Pixel(9, 7, 8, 9) >>
NameInputs == {NameAB}
BufferInputs == { <<Frame257>>, <<FrameTwice, TestFrame(1)>>, <<OnePixel>> }
PixelInputs == { Pixel(i, c, 255 - c, c \div 2) : i \in {0, 4, 9, 65535}, c \in {0, 9, 100, 128, 200, 255} }

\* what the calls on the objects leave alone
notObjs == <<genVars, asg, cloc, oldObjs, wr, old, rend, currentAnimation, screen, mutex_, rpc, renderLocals,
             dl, rTimer, controlVars, hist>>

\* Animation::getFramesDeepCopy(): FrameBuffer copy = frames_
getFramesDeepCopy(self) == self.frames_

\* Animation::frameCount(): frames_.size()
frameCount_(self) == Len(self.frames_)

\* a std::string a move has taken the content of: valid, its value unspecified
MovedFromNames(name) == {<<>>, name}

\* the source of name_ = std::move(other.name_); frames_ = std::move(other.frames_):
\* nameHash_ is only read
MovedFrom(self, name) ==
    [self EXCEPT !.name_ = name, !.frames_ = <<>>, !.cap_ = CapacityOf(<<>>)]

\* Animation()
AnimationDefault(o) ==
    /\ o \notin objs.live
    /\ objs' = [objs EXCEPT ![o] = EmptyAnimation,
                            !.live = @ \cup {o},
                            !.last = Call("Animation", o, <<>>)]
    /\ UNCHANGED notObjs

\* Animation(namestr, frames)
AnimationNew(o, namestr, frames) ==
    /\ o \notin objs.live
    /\ objs' = [objs EXCEPT ![o] = Animation(namestr, frames),
                            !.live = @ \cup {o},
                            !.last = Call("AnimationNew", o, frames)]
    /\ UNCHANGED notObjs

\* Animation(const Animation& other)
AnimationCopy(o) ==
    /\ o \notin objs.live
    /\ Other(o) \in objs.live
    /\ objs' = [objs EXCEPT ![o] = AnimationAssign(Unconstructed, objs[Other(o)]),
                            !.live = @ \cup {o},
                            !.last = Call("AnimationCopy", o, objs[Other(o)].frames_)]
    /\ UNCHANGED notObjs

\* Animation(Animation&& other)
AnimationMove(o) ==
    /\ o \notin objs.live
    /\ Other(o) \in objs.live
    /\ \E name \in MovedFromNames(objs[Other(o)].name_) :
          objs' = [objs EXCEPT ![o] = objs[Other(o)],
                               ![Other(o)] = MovedFrom(@, name),
                               !.live = @ \cup {o},
                               !.last = Call("AnimationMove", o, objs[Other(o)].frames_)]
    /\ UNCHANGED notObjs

\* Animation::operator=(const Animation& other), other another object
CopyAssign(o) ==
    /\ Objects \subseteq objs.live
    /\ objs' = [objs EXCEPT ![o] = AnimationAssign(@, objs[Other(o)]),
                            !.last = Call("CopyAssign", o, objs[Other(o)].frames_)]
    /\ UNCHANGED notObjs

\* Animation::operator=(Animation&& other), other another object
MoveAssign(o) ==
    /\ Objects \subseteq objs.live
    /\ \E name \in MovedFromNames(objs[Other(o)].name_) :
          objs' = [objs EXCEPT ![o] = objs[Other(o)],
                               ![Other(o)] = MovedFrom(@, name),
                               !.last = Call("MoveAssign", o, objs[Other(o)].frames_)]
    /\ UNCHANGED notObjs

\* Animation::setName(namestr)
SetName(o, namestr) ==
    /\ o \in objs.live
    /\ objs' = [objs EXCEPT ![o].name_ = namestr,
                            ![o].nameHash_ = hash_string_runtime(namestr),
                            !.last = Call("setName", o, namestr)]
    /\ UNCHANGED notObjs

\* Animation::setFrames(frames): frames_ = frames
SetFrames(o, frames) ==
    /\ o \in objs.live
    /\ LET fb == FrameBufferAssign(objs[o].frames_, objs[o].cap_, frames)
       IN objs' = [objs EXCEPT ![o].frames_ = fb.v,
                               ![o].cap_ = fb.cap,
                               !.last = Call("setFrames", o, frames)]
    /\ UNCHANGED notObjs

\* Animation::clearFrames(): frames_.clear(); name_ = "NONE"; nameHash_ = its hash
ClearFrames(o) ==
    /\ o \in objs.live
    /\ objs' = [objs EXCEPT ![o].frames_ = <<>>,
                            ![o].cap_.inner = <<>>,
                            ![o].name_ = NameNONE,
                            ![o].nameHash_ = hash_string_runtime(NameNONE),
                            !.last = Call("clearFrames", o, <<>>)]
    /\ UNCHANGED notObjs

\* the end of an Animation's lifetime
AnimationDestroy(o) ==
    /\ o \in objs.live
    /\ objs' = [objs EXCEPT ![o] = Unconstructed,
                            !.live = @ \ {o},
                            !.last = Call("destroy", o, <<>>)]
    /\ UNCHANGED notObjs

\* Pixel(idx, red, green, blue)
PixelNew(other) ==
    /\ objs' = [objs EXCEPT !.p = other, !.last = Call("Pixel", "p", other)]
    /\ UNCHANGED notObjs

\* p = other, other another Pixel
PixelCopyAssign(other) ==
    /\ objs' = [objs EXCEPT !.p = PixelAssign(@, other),
                            !.last = Call("pixelAssign", "p", other)]
    /\ UNCHANGED notObjs

\* p = p: this == &other
PixelSelfAssign ==
    /\ objs' = [objs EXCEPT !.last = Call("pixelSelfAssign", "p", objs.p)]
    /\ UNCHANGED notObjs

\* the older animation.h: FRAMES is a pointer into the heap, an address is an
\* index of heap; a cell is live with its buffer, or freed
MaxAllocations == 3

Cell(st, v) == [st |-> st, v |-> v]
OldUnconstructed == [NAME |-> <<>>, FRAMES |-> 0]
OldBufferInputs == { <<Frame257>>, <<>> }

\* a = Animation(): FRAMES = new std::vector<...>
OldObjsInit ==
    [a |-> [NAME |-> NameNONE, FRAMES |-> 1], b |-> OldUnconstructed, live |-> {"a"},
     heap |-> << Cell("live", <<>>) >>, fault |-> FALSE, last |-> NoCall]

notOldObjs == <<genVars, asg, cloc, objs, wr, old, rend, currentAnimation, screen, mutex_, rpc, renderLocals,
                dl, rTimer, controlVars, hist>>

\* the buffer FRAMES points to
OldFramesOf(oo, o) == oo.heap[oo[o].FRAMES]

\* a use of freed storage or a second delete of it: the heap is corrupted and
\* the program either goes on or stops
OldUndefined(op, o) ==
    \E stopped \in BOOLEAN :
        oldObjs' = [oldObjs EXCEPT !.fault = stopped, !.last = Call(op, o, <<>>)]

\* Animation(String namestr): FRAMES = new std::vector<...>
OldAnimationNew(o, namestr) ==
    /\ ~oldObjs.fault
    /\ o \notin oldObjs.live
    /\ Len(oldObjs.heap) < MaxAllocations
    /\ oldObjs' = [oldObjs EXCEPT ![o] = [NAME |-> namestr, FRAMES |-> Len(oldObjs.heap) + 1],
                                  !.heap = Append(@, Cell("live", <<>>)),
                                  !.live = @ \cup {o},
                                  !.last = Call("AnimationNew", o, <<>>)]
    /\ UNCHANGED notOldObjs

\* Animation(const Animation& other): NAME = other.NAME; FRAMES = other.FRAMES
OldAnimationCopy(o) ==
    /\ ~oldObjs.fault
    /\ o \notin oldObjs.live
    /\ Other(o) \in oldObjs.live
    /\ oldObjs' = [oldObjs EXCEPT ![o] = oldObjs[Other(o)],
                                  !.live = @ \cup {o},
                                  !.last = Call("AnimationCopy", o, <<>>)]
    /\ UNCHANGED notOldObjs

\* Animation::operator=(const Animation& other): NAME = other.NAME; FRAMES = other.FRAMES
OldCopyAssign(o) ==
    /\ ~oldObjs.fault
    /\ Objects \subseteq oldObjs.live
    /\ oldObjs' = [oldObjs EXCEPT ![o] = oldObjs[Other(o)],
                                  !.last = Call("CopyAssign", o, <<>>)]
    /\ UNCHANGED notOldObjs

\* the older Renderer::setAnimation on an Animation: FRAMES->clear(), then a
\* push_back of every frame
OldFill(o, frames) ==
    /\ ~oldObjs.fault
    /\ o \in oldObjs.live
    /\ IF OldFramesOf(oldObjs, o).st = "live"
       THEN oldObjs' = [oldObjs EXCEPT !.heap[oldObjs[o].FRAMES].v = frames,
                                       !.last = Call("fill", o, frames)]
       ELSE OldUndefined("fill", o)
    /\ UNCHANGED notOldObjs

\* ~Animation(): FRAMES->clear(); delete FRAMES
OldAnimationDestroy(o) ==
    /\ ~oldObjs.fault
    /\ o \in oldObjs.live
    /\ IF OldFramesOf(oldObjs, o).st = "live"
       THEN oldObjs' = [oldObjs EXCEPT !.heap[oldObjs[o].FRAMES] = Cell("freed", <<>>),
                                       ![o] = OldUnconstructed,
                                       !.live = @ \ {o},
                                       !.last = Call("destroy", o, <<>>)]
       ELSE OldUndefined("destroy", o)
    /\ UNCHANGED notOldObjs

-----------------------------------------------------------------------------
(* animation.h: Animation::operator= called from two contexts at once, the  *)
(* one that assigns into a and the one that assigns into b; a context is     *)
(* named by the object it assigns into                                       *)

AsgInit ==
    [pc |-> [a |-> "idle", b |-> "idle"],
     kind |-> [a |-> "copy", b |-> "copy"],
     mtx |-> [a |-> "free", b |-> "free"],
     calls |-> [a |-> 0, b |-> 0]]

\* assignments a context makes at most
MaxAssignCalls == 2

AssignKinds == {"copy", "move"}

notAsg == <<genVars, cloc, oldObjs, wr, old, rend, currentAnimation, screen, mutex_, rpc, renderLocals,
            dl, rTimer, controlVars, hist>>

\* o = other or o = std::move(other) is called; this != &other
AssignCall(o, kind) ==
    /\ asg.pc[o] = "idle"
    /\ Objects \subseteq objs.live
    /\ asg.calls[o] < MaxAssignCalls
    /\ asg' = [asg EXCEPT !.pc[o] = "lock1", !.kind[o] = kind, !.calls[o] = @ + 1]
    /\ UNCHANGED <<objs, notAsg>>

\* std::lock(mutex_, other.mutex_): lock the first mutex, waiting for it
AssignLockFirst(o) ==
    /\ asg.pc[o] = "lock1"
    /\ asg.mtx[o] = "free"
    /\ asg' = [asg EXCEPT !.mtx[o] = o, !.pc[o] = "try2"]
    /\ UNCHANGED <<objs, notAsg>>

\* std::lock: try_lock of the second mutex succeeds; both are held and are
\* adopted by the two lock_guards
AssignTryLocked(o) ==
    /\ asg.pc[o] = "try2"
    /\ asg.mtx[Other(o)] = "free"
    /\ asg' = [asg EXCEPT !.mtx[Other(o)] = o, !.pc[o] = "assign"]
    /\ UNCHANGED <<objs, notAsg>>

\* a std::lock that waits for the second mutex with the first one held
AssignBackOff_Hold(o) ==
    /\ asg.pc[o] = "try2"
    /\ asg.mtx[Other(o)] # "free"
    /\ UNCHANGED vars

\* std::lock: try_lock of the second mutex fails; the first is unlocked and
\* the locking starts again
AssignBackOff(o) ==
    /\ asg.pc[o] = "try2"
    /\ asg.mtx[Other(o)] # "free"
    /\ asg' = [asg EXCEPT !.mtx[o] = "free", !.pc[o] = "lock1"]
    /\ UNCHANGED <<objs, notAsg>>

\* name_ = other.name_; nameHash_ = other.nameHash_; frames_ = other.frames_,
\* or the same with std::move
AssignBody(o) ==
    /\ asg.pc[o] = "assign"
    /\ IF asg.kind[o] = "copy"
       THEN objs' = [objs EXCEPT ![o] = AnimationAssign(@, objs[Other(o)]),
                                 !.last = Call("CopyAssign", o, objs[Other(o)].frames_)]
       ELSE \E name \in MovedFromNames(objs[Other(o)].name_) :
               objs' = [objs EXCEPT ![o] = objs[Other(o)],
                                    ![Other(o)] = MovedFrom(@, name),
                                    !.last = Call("MoveAssign", o, objs[Other(o)].frames_)]
    /\ asg' = [asg EXCEPT !.pc[o] = "return"]
    /\ UNCHANGED notAsg

\* return *this: the two lock_guards unlock both mutexes
AssignReturn(o) ==
    /\ asg.pc[o] = "return"
    /\ asg' = [asg EXCEPT !.mtx = [x \in Objects |-> IF @[x] = o THEN "free" ELSE @[x]],
                          !.pc[o] = "idle"]
    /\ UNCHANGED <<objs, notAsg>>

-----------------------------------------------------------------------------
(* render.cpp: the animation generators.  A frame of the older Animation   *)
(* is a vector of std::array<uint8_t, 4> {index, r, g, b}, kept here as a    *)
(* sequence of Pixels                                                        *)

Abs(x) == IF x < 0 THEN -x ELSE x

\* {static_cast<uint8_t>(led), brightness, brightness, brightness}
Grey(led, brightness) ==
    Pixel(led % Uint8Modulus, brightness % Uint8Modulus, brightness % Uint8Modulus,
          brightness % Uint8Modulus)

\* for (int led = 0; led < ledCount; led++) allOnFrame.push_back({led, maxBrightness, ...})
AllOnFrame(ledCount, maxBrightness) ==
    [k \in 1..ledCount |-> Grey(k - 1, maxBrightness)]

\* count copies of frame, pushed one after the other
Copies(frame, count) == [k \in 1..count |-> frame]

\* render.cpp, the loop over led of one contracting frame: the brightness of led
ExtinguishBrightness(led, extent, ledCount, maxBrightness, abruptFade) ==
    LET middleLed == ledCount \div 2
        isOddCount == ledCount % 2 # 0
        leftEdge == middleLed - extent - (IF isOddCount THEN 0 ELSE 1)
        rightEdge == middleLed + extent
        withinBar == led >= leftEdge /\ led <= rightEdge
        distance == Min(Abs(led - leftEdge), Abs(led - rightEdge))
    IN IF withinBar THEN maxBrightness
       ELSE IF ~abruptFade /\ distance <= 4
            THEN Max(0, maxBrightness - ((distance * maxBrightness) \div 2)) % Uint8Modulus
            ELSE 0

\* render.cpp: only the pixels that have some brightness are added
ExtinguishFrame(extent, ledCount, maxBrightness, abruptFade) ==
    SelectSeq([k \in 1..ledCount |->
                  Grey(k - 1, ExtinguishBrightness(k - 1, extent, ledCount, maxBrightness,
                                                   abruptFade))],
              LAMBDA pixel : pixel.r > 0)

\* for (int extent = middleLed; extent >= 0; extent--) frames->push_back(frame)
RECURSIVE ExtinguishFrames(_, _, _, _)
ExtinguishFrames(extent, ledCount, maxBrightness, abruptFade) ==
    IF extent < 0 THEN <<>>
    ELSE <<ExtinguishFrame(extent, ledCount, maxBrightness, abruptFade)>>
         \o ExtinguishFrames(extent - 1, ledCount, maxBrightness, abruptFade)

\* render.cpp: the middle LED, or the two middle LEDs of an even strip
CentreFrame(ledCount, brightness) ==
    LET middleLed == ledCount \div 2
    IN IF ledCount % 2 # 0
       THEN << Grey(middleLed, brightness) >>
       ELSE << Grey(middleLed - 1, brightness), Grey(middleLed, brightness) >>

fadeFames == 8
RetentionFrameMs == 100

\* for (uint8_t i = fadeFames; i > 0; i--):
\* brightness = static_cast<uint8_t>(maxBrightness * (i / (float)fadeFames))
RECURSIVE FadeFrames(_, _, _)
FadeFrames(i, ledCount, maxBrightness) ==
    IF i = 0 THEN <<>>
    ELSE <<CentreFrame(ledCount, (maxBrightness * i) \div fadeFames)>>
         \o FadeFrames(i - 1, ledCount, maxBrightness)

\* render.cpp: createExtinguishingBarAnimation.  allOffFrame is declared and
\* never pushed.
createExtinguishingBarAnimation(ledCount, maxBrightness, retentionTime, abruptFade) ==
    LET retentionFrames == Max(1, (retentionTime \div RetentionFrameMs) % Uint16Modulus)
    IN <<AllOnFrame(ledCount, maxBrightness)>>
       \o ExtinguishFrames(ledCount \div 2, ledCount, maxBrightness, abruptFade)
       \o (IF retentionTime > 0
           THEN Copies(CentreFrame(ledCount, maxBrightness), retentionFrames)
           ELSE <<>>)
       \o FadeFrames(fadeFames, ledCount, maxBrightness)

FadeStep == 25

\* the earlier createExtinguishingBarAnimation, one contracting frame: a pixel
\* is added when it is within the bar or the fade is soft
EarlierExtinguishFrame(extent, ledCount, maxBrightness, abruptFade) ==
    LET middleLed == ledCount \div 2
        within(led) == led >= middleLed - extent /\ led <= middleLed + extent
        distance(led) == Min(Abs(led - (middleLed - extent)), Abs(led - (middleLed + extent)))
        brightness(led) == IF within(led) THEN maxBrightness
                           ELSE Max(0, maxBrightness - distance(led) * FadeStep) % Uint8Modulus
    IN SelectSeq([k \in 1..ledCount |-> Grey(k - 1, brightness(k - 1))],
                 LAMBDA pixel : within(pixel.index) \/ ~abruptFade)

RECURSIVE EarlierExtinguishFrames(_, _, _, _)
EarlierExtinguishFrames(extent, ledCount, maxBrightness, abruptFade) ==
    IF extent < 0 THEN <<>>
    ELSE <<EarlierExtinguishFrame(extent, ledCount, maxBrightness, abruptFade)>>
         \o EarlierExtinguishFrames(extent - 1, ledCount, maxBrightness, abruptFade)

\* the earlier createExtinguishingBarAnimation:
\* retentionFrames = static_cast<uint8_t>(retentionTime / 100), one centre
\* pixel, and a last frame of ledCount dark pixels
createExtinguishingBarAnimationEarlier(ledCount, maxBrightness, retentionTime, abruptFade) ==
    LET retentionFrames == (retentionTime \div RetentionFrameMs) % Uint8Modulus
    IN <<AllOnFrame(ledCount, maxBrightness)>>
       \o EarlierExtinguishFrames(ledCount \div 2, ledCount, maxBrightness, abruptFade)
       \o (IF retentionTime > 0
           THEN Copies(<<Grey(ledCount \div 2, maxBrightness)>>, retentionFrames)
           ELSE <<>>)
       \o <<AllOnFrame(ledCount, 0)>>

\* createCirclingBrightDotAnimation: position = frame, or ledCount - frame when
\* counter-clockwise; mainLed = (int)fmod(position, ledCount)
MainLed_Forward(frame, ledCount, clockwise) == frame % ledCount

MainLed(frame, ledCount, clockwise) ==
    (IF clockwise THEN frame ELSE ledCount - frame) % ledCount

TrailDecay == 5
TrailFloor == 5

\* uint8_t trailBrightness = currentBrightness * pow(0.20f, i): a fifth per
\* LED of the trail; from the third LED on it is below 5 for every uint8_t and
\* the pixel is skipped whatever it is
TrailBrightness(brightness, i) ==
    IF i = 1 THEN brightness \div TrailDecay
    ELSE IF i = 2 THEN brightness \div (TrailDecay * TrailDecay)
    ELSE 0

\* for (int i = 1; i < trailLength; i++): the trail behind the dot, without
\* the pixels dimmer than 5
RECURSIVE Trail(_, _, _, _, _, _)
Trail(i, mainLed, ledCount, clockwise, trailLength, brightness) ==
    IF i >= trailLength THEN <<>>
    ELSE LET trailLed == IF clockwise THEN (mainLed - i + ledCount) % ledCount
                         ELSE (mainLed + i) % ledCount
         IN (IF TrailBrightness(brightness, i) < TrailFloor THEN <<>>
             ELSE <<Grey(trailLed, TrailBrightness(brightness, i))>>)
            \o Trail(i + 1, mainLed, ledCount, clockwise, trailLength, brightness)

\* createCirclingBrightDotAnimation: one frame
CirclingFrame(frame, ledCount, abruptFade, clockwise, trailLength, brightness) ==
    LET mainLed == MainLed(frame, ledCount, clockwise)
    IN <<Grey(mainLed % ledCount, brightness)>>
       \o (IF abruptFade THEN <<>>
           ELSE Trail(1, mainLed, ledCount, clockwise, trailLength, brightness))

\* createCirclingBrightDotAnimation: for (int frame = 0; frame < frameCount; frame++)
createCirclingBrightDotAnimation(ledCount, abruptFade, clockwise, trailLength, brightness) ==
    [k \in 1..ledCount |->
        CirclingFrame(k - 1, ledCount, abruptFade, clockwise, trailLength, brightness)]

\* createMovingBarAnimation: uint8_t led = middleLed - barSize/2 + i, added
\* if (led >= 0 && led < ledCount); one frame is pushed
createMovingBarAnimation(ledCount, brightness, barSize) ==
    LET size == IF barSize = 0 THEN 1 ELSE barSize
        middleLed == ledCount \div 2
        led(i) == (middleLed - (size \div 2) + i) % Uint8Modulus
    IN << SelectSeq([k \in 1..size |-> Grey(led(k - 1), brightness)],
                    LAMBDA pixel : pixel.index < ledCount) >>

\* fillVectorPixels(vec, start, end, value): for (uint8_t i = start; i < end; i++);
\* start and end are converted to uint8_t at the call
fillVectorPixels(start, end, value) ==
    LET from == start % Uint8Modulus
        to == end % Uint8Modulus
    IN [k \in 1..(to - from) |-> Grey(from + k - 1, value)]

BarFadeFrames == 5

\* the three fills of a frame of the growing and of the shrinking bar: the
\* two bars at the ends of the strip and the dark middle
BarFrame(height, ledCount, maxBrightness) ==
    fillVectorPixels(0, height, maxBrightness)
    \o fillVectorPixels(height, ledCount - height, 0)
    \o fillVectorPixels(ledCount - height, ledCount, maxBrightness)

\* the sequences of seqs one after the other
RECURSIVE Flatten(_)
Flatten(seqs) == IF seqs = <<>> THEN <<>> ELSE Head(seqs) \o Flatten(Tail(seqs))

\* createGrowingBarAnimation, soft fade: the fade frame i of currentHeight
GrowingFadeFrame(currentHeight, i, ledCount, maxBrightness) ==
    LET brightness == (maxBrightness * i) \div BarFadeFrames
    IN fillVectorPixels(0, currentHeight, maxBrightness)
       \o <<Grey(currentHeight, brightness)>>
       \o fillVectorPixels(ledCount - currentHeight, ledCount, maxBrightness)
       \o <<Grey((ledCount - currentHeight) % Uint8Modulus, brightness)>>

\* createGrowingBarAnimation: the frames of
\* for (uint8_t currentHeight = startHeight + 1; currentHeight <= middleLed; currentHeight++)
GrowingFrames(startHeight, ledCount, maxBrightness, abruptFade) ==
    LET first == (startHeight + 1) % Uint8Modulus
        middleLed == ledCount \div 2
    IN Flatten([k \in 1..(middleLed - first + 1) |->
                  IF abruptFade
                  THEN <<BarFrame(first + k - 1, ledCount, maxBrightness)>>
                  ELSE [i \in 1..BarFadeFrames |->
                          GrowingFadeFrame(first + k - 1, i - 1, ledCount, maxBrightness)]])

\* createGrowingBarAnimation; endHeight is stored and used for reserve() only
createGrowingBarAnimation(ledCount, maxBrightness, startHeight, endHeight, abruptFade, interactive) ==
    LET fframe == BarFrame(startHeight, ledCount, maxBrightness)
    IN IF interactive THEN <<fframe>>
       ELSE <<fframe>> \o GrowingFrames(startHeight, ledCount, maxBrightness, abruptFade)

\* createShrinkingBarAnimation, soft fade: the fade frame i of currentHeight
ShrinkingFadeFrame(currentHeight, i, ledCount, maxBrightness) ==
    LET brightness == (maxBrightness * i) \div BarFadeFrames
    IN fillVectorPixels(0, currentHeight - 1, maxBrightness)
       \o <<Grey(currentHeight - 1, brightness)>>
       \o fillVectorPixels(currentHeight, ledCount - currentHeight, 0)
       \o fillVectorPixels(ledCount - currentHeight + 1, ledCount, maxBrightness)
       \o <<Grey((ledCount - currentHeight) % Uint8Modulus, brightness)>>

\* createShrinkingBarAnimation: the frames of
\* for (...; currentHeight > endHeight; heightStep++, currentHeight--)
ShrinkingFrames(startHeight, endHeight, ledCount, maxBrightness, abruptFade) ==
    Flatten([k \in 1..(startHeight - endHeight) |->
               IF abruptFade
               THEN <<BarFrame(startHeight - k + 1, ledCount, maxBrightness)>>
               ELSE [i \in 1..BarFadeFrames |->
                       ShrinkingFadeFrame(startHeight - k + 1, BarFadeFrames - i + 1,
                                          ledCount, maxBrightness)]])

\* createShrinkingBarAnimation: if (startHeight == 0) startHeight = middleLed
createShrinkingBarAnimation(ledCount, maxBrightness, startHeight, endHeight, abruptFade, interactive) ==
    LET start == IF startHeight = 0 THEN ledCount \div 2 ELSE startHeight
        fframe == BarFrame(start, ledCount, maxBrightness)
    IN IF interactive THEN <<fframe>>
       ELSE <<fframe>> \o ShrinkingFrames(start, endHeight, ledCount, maxBrightness, abruptFade)

\* createExtendingBarAnimation: the centre LED, or the two centre LEDs of an
\* even strip, index static_cast<uint8_t>(middleLed - 1) and middleLed
ExtendingCentre(ledCount, maxBrightness) ==
    LET middleLed == ledCount \div 2
    IN IF ledCount % 2 # 0
       THEN << Grey(middleLed, maxBrightness) >>
       ELSE << Grey((middleLed - 1) % Uint8Modulus, maxBrightness), Grey(middleLed, maxBrightness) >>

\* createExtendingBarAnimation: the left and the right pixel at distance i,
\* each added if it is on the strip
ExtendingPair(i, ledCount, brightness, withRight) ==
    LET middleLed == ledCount \div 2
        isOddCount == ledCount % 2 # 0
        leftPos == middleLed - i
        rightPos == IF ~isOddCount /\ i > 0 THEN middleLed - 1 + i ELSE middleLed + i
    IN (IF leftPos >= 0 THEN <<Grey(leftPos, brightness)>> ELSE <<>>)
       \o (IF rightPos < ledCount /\ withRight THEN <<Grey(rightPos, brightness)>> ELSE <<>>)

\* createExtendingBarAnimation, soft fade: the inner LEDs, the centre and the
\* two edge LEDs at maxBrightness * (fadeStep / 5.0f)
ExtendingFadeFrame(extent, fadeStep, ledCount, maxBrightness) ==
    Flatten([i \in 1..(extent - 1) |-> ExtendingPair(i, ledCount, maxBrightness, TRUE)])
    \o ExtendingCentre(ledCount, maxBrightness)
    \o ExtendingPair(extent, ledCount, (maxBrightness * fadeStep) \div BarFadeFrames, TRUE)

\* createExtendingBarAnimation, abrupt: for (int i = 0; i <= extent; i++); the
\* right pixel of i = 0 is added for an odd strip only
ExtendingFullFrame(extent, ledCount, maxBrightness) ==
    Flatten([k \in 1..(extent + 1) |->
               ExtendingPair(k - 1, ledCount, maxBrightness, k - 1 > 0 \/ ledCount % 2 # 0)])

\* createExtendingBarAnimation: if (endDistance == 0) endDistance = ledCount / 2
createExtendingBarAnimation(ledCount, maxBrightness, endDistance, abruptFade) ==
    LET distance == IF endDistance = 0 THEN ledCount \div 2 ELSE endDistance
    IN <<ExtendingCentre(ledCount, maxBrightness)>>
       \o Flatten([extent \in 1..distance |->
                     IF abruptFade
                     THEN <<ExtendingFullFrame(extent, ledCount, maxBrightness)>>
                     ELSE [fadeStep \in 1..BarFadeFrames |->
                             ExtendingFadeFrame(extent, fadeStep, ledCount, maxBrightness)]])

(* The caller of the generators *)

GenInit == [fn |-> "none", ledCount |-> 0, abruptFade |-> FALSE, clockwise |-> FALSE,
            brightness |-> 0, time |-> 0, frames |-> <<>>]

GenLedCounts == {0, 1, 2, 8, 11}
GenBrightnesses == {0, 7, 200, 255}
GenRetentionTimes == {0, 50, 300, 25600}
GenTrailLengths == {0, 3, 5}

notGen == <<bar, mov, menu, asg, cloc, animVars, wr, old, rend, currentAnimation, screen, mutex_, rpc,
            renderLocals, dl, rTimer, controlVars, hist>>

\* animation = createExtinguishingBarAnimation(ledCount, maxBrightness, retentionTime, abruptFade)
CreateExtinguishingBar(ledCount, maxBrightness, retentionTime, abruptFade) ==
    /\ gen' = [fn |-> "Extinguishing Bar", ledCount |-> ledCount, abruptFade |-> abruptFade,
               clockwise |-> FALSE, brightness |-> maxBrightness, time |-> retentionTime,
               frames |-> createExtinguishingBarAnimation(ledCount, maxBrightness,
                                                          retentionTime, abruptFade)]
    /\ UNCHANGED notGen

\* the same call of the earlier generator
CreateExtinguishingBarEarlier(ledCount, maxBrightness, retentionTime, abruptFade) ==
    /\ gen' = [fn |-> "Extinguishing Bar", ledCount |-> ledCount, abruptFade |-> abruptFade,
               clockwise |-> FALSE, brightness |-> maxBrightness, time |-> retentionTime,
               frames |-> createExtinguishingBarAnimationEarlier(ledCount, maxBrightness,
                                                                 retentionTime, abruptFade)]
    /\ UNCHANGED notGen

\* animation = createCirclingBrightDotAnimation(ledCount, abruptFade, clockwise, trailLength, brightness)
CreateCirclingBrightDot(ledCount, abruptFade, clockwise, trailLength, brightness) ==
    /\ gen' = [fn |-> "Circling Bright Dot", ledCount |-> ledCount, abruptFade |-> abruptFade,
               clockwise |-> clockwise, brightness |-> brightness, time |-> 0,
               frames |-> createCirclingBrightDotAnimation(ledCount, abruptFade, clockwise,
                                                           trailLength, brightness)]
    /\ UNCHANGED notGen

\* animation = createGrowingBarAnimation(ledCount, maxBrightness, startHeight, endHeight,
\*                                       abruptFade, interactive)
CreateGrowingBar(ledCount, maxBrightness, startHeight, endHeight, abruptFade, interactive) ==
    /\ gen' = [fn |-> "Growing Bar", ledCount |-> ledCount, abruptFade |-> abruptFade,
               clockwise |-> FALSE, brightness |-> maxBrightness, time |-> 0,
               startHeight |-> startHeight, endHeight |-> endHeight,
               frames |-> createGrowingBarAnimation(ledCount, maxBrightness, startHeight,
                                                    endHeight, abruptFade, interactive)]
    /\ UNCHANGED notGen

\* animation = createShrinkingBarAnimation(ledCount, maxBrightness, startHeight, endHeight,
\*                                         abruptFade, interactive)
CreateShrinkingBar(ledCount, maxBrightness, startHeight, endHeight, abruptFade, interactive) ==
    /\ gen' = [fn |-> "Shrinking Bar", ledCount |-> ledCount, abruptFade |-> abruptFade,
               clockwise |-> FALSE, brightness |-> maxBrightness, time |-> 0,
               startHeight |-> startHeight, endHeight |-> endHeight,
               frames |-> createShrinkingBarAnimation(ledCount, maxBrightness, startHeight,
                                                      endHeight, abruptFade, interactive)]
    /\ UNCHANGED notGen

\* animation = createExtendingBarAnimation(ledCount, maxBrightness, endDistance, abruptFade)
CreateExtendingBar(ledCount, maxBrightness, endDistance, abruptFade) ==
    /\ gen' = [fn |-> "Extending Bar", ledCount |-> ledCount, abruptFade |-> abruptFade,
               clockwise |-> FALSE, brightness |-> maxBrightness, time |-> 0,
               startHeight |-> 0, endHeight |-> endDistance,
               frames |-> createExtendingBarAnimation(ledCount, maxBrightness, endDistance,
                                                      abruptFade)]
    /\ UNCHANGED notGen

\* animation = createMovingBarAnimation(ledCount, brightness, barSize)
CreateMovingBar(ledCount, brightness, barSize) ==
    /\ gen' = [fn |-> "Moving Bar", ledCount |-> ledCount, abruptFade |-> FALSE,
               clockwise |-> FALSE, brightness |-> brightness, time |-> 0,
               startHeight |-> 0, endHeight |-> barSize,
               frames |-> createMovingBarAnimation(ledCount, brightness, barSize)]
    /\ UNCHANGED notGen

BarGenLedCounts == {0, 1, 4, 5}
BarGenBrightnesses == {255}
BarGenHeights == {0, 1, 3, 20}
BarGenEndHeights == {0, 2}

(* render.cpp: Renderer::updateMovingBarAnimation on the older Renderer, and *)
(* the setAnimation that installs the Moving Bar                             *)

FullWhite == 255
DefaultBarSize == 5

BarInit == [pc |-> "none", LEDCOUNT |-> 0, barStart |-> 0, barEnd |-> 0, FRAMES |-> <<>>,
            moving |-> FALSE, last |-> "none"]

BarLedCounts == {1, 3, 6}
BarSizes == {0, 2, DefaultBarSize}
BarBrightnesses == {0, FullWhite}

notBar == <<gen, mov, menu, asg, cloc, animVars, wr, old, rend, currentAnimation, screen, mutex_, rpc,
            renderLocals, dl, rTimer, controlVars, hist>>

\* Renderer renderer(ledCount): the strip has LEDs; barStart and barEnd are
\* somewhere on it, CURRENTANIMATION is empty
BarRendererNew(ledCount, start, end) ==
    /\ bar.pc = "none"
    /\ bar' = [bar EXCEPT !.pc = "ready", !.LEDCOUNT = ledCount,
                          !.barStart = start, !.barEnd = end]
    /\ UNCHANGED notBar

\* newAnimation = createMovingBarAnimation(renderer->LEDCOUNT, BRIGHTNESS, barSize);
\* renderer->setAnimation(*newAnimation): FRAMES->clear(), then every frame is pushed
SetMovingBar(brightness, barSize) ==
    /\ bar.pc = "ready"
    /\ bar' = [bar EXCEPT !.FRAMES = createMovingBarAnimation(bar.LEDCOUNT, brightness, barSize),
                          !.moving = TRUE,
                          !.last = "set"]
    /\ UNCHANGED notBar

\* for (int led = from; led <= to; led++) frame.push_back({led, 255, 255, 255})
WhiteRun(from, to) == [k \in 1..(to - from + 1) |-> Grey(from + k - 1, FullWhite)]

\* updateMovingBarAnimation: the frame of the bar from barStart to barEnd + 1,
\* in two runs when the bar wraps around the end of the strip
MovingBarFrame(barStart, barEnd, LEDCOUNT) ==
    IF barStart > barEnd
    THEN WhiteRun(barStart, LEDCOUNT - 1) \o WhiteRun(0, barEnd + 1)
    ELSE WhiteRun(barStart, barEnd + 1)

\* updateMovingBarAnimation: barStart and barEnd one LED up or down
MovedBar(position, upPressed, LEDCOUNT) ==
    IF upPressed THEN (position + 1) % LEDCOUNT
    ELSE (position - 1 + LEDCOUNT) % LEDCOUNT

UpdateMovingBarAnimation_Append(upPressed, downPressed) ==
    /\ bar.pc = "ready"
    /\ IF upPressed \/ downPressed
       THEN LET start == MovedBar(bar.barStart, upPressed, bar.LEDCOUNT)
                end == MovedBar(bar.barEnd, upPressed, bar.LEDCOUNT)
            IN bar' = [bar EXCEPT !.barStart = start,
                                  !.barEnd = end,
                                  !.FRAMES = Append(@, MovingBarFrame(start, end, bar.LEDCOUNT)),
                                  !.last = IF upPressed THEN "up" ELSE "down"]
       ELSE bar' = [bar EXCEPT !.last = "neither"]
    /\ UNCHANGED notBar

\* Renderer::updateMovingBarAnimation(upPressed, downPressed): neither pressed
\* returns at once; otherwise FRAMES->clear(); FRAMES->push_back(frame)
UpdateMovingBarAnimation(upPressed, downPressed) ==
    /\ bar.pc = "ready"
    /\ IF upPressed \/ downPressed
       THEN LET start == MovedBar(bar.barStart, upPressed, bar.LEDCOUNT)
                end == MovedBar(bar.barEnd, upPressed, bar.LEDCOUNT)
            IN bar' = [bar EXCEPT !.barStart = start,
                                  !.barEnd = end,
                                  !.FRAMES = <<MovingBarFrame(start, end, bar.LEDCOUNT)>>,
                                  !.last = IF upPressed THEN "up" ELSE "down"]
       ELSE bar' = [bar EXCEPT !.last = "neither"]
    /\ UNCHANGED notBar

-----------------------------------------------------------------------------
(* render.cpp: the older render() and updateMovingBarAnimation as           *)
(* two tasks on one Renderer, with its LOCK and the LOCK of CURRENTANIMATION *)

MovInit == [pc |-> "none", LEDCOUNT |-> 0, barStart |-> 0, barEnd |-> 0, RUNNING |-> FALSE,
            REPEAT |-> FALSE, FRAMES |-> <<>>, LOCK |-> "free", ALOCK |-> "free",
            upc |-> "idle", frame |-> <<>>, orpc |-> "idle", frames |-> <<>>,
            moving |-> FALSE, seen |-> -1, emptyRead |-> FALSE, rendered |-> FALSE]

MovLedCounts == {1, 3}

notMov == <<gen, bar, menu, asg, cloc, animVars, wr, old, rend, currentAnimation, screen, mutex_,
            rpc, renderLocals, dl, rTimer, controlVars, hist>>

\* Renderer renderer(ledCount, ..., repeat): barStart and barEnd are somewhere on the strip
MovRendererNew(ledCount, start, end, repeat) ==
    /\ mov.pc = "none"
    /\ mov' = [mov EXCEPT !.pc = "ready", !.LEDCOUNT = ledCount, !.barStart = start,
                          !.barEnd = end, !.REPEAT = repeat]
    /\ UNCHANGED notMov

\* the older Renderer::setAnimation(anim): under LOCK, RUNNING = false
MovSetAnimationStop ==
    /\ mov.pc = "ready"
    /\ mov.upc = "idle"
    /\ mov.LOCK = "free"
    /\ mov' = [mov EXCEPT !.RUNNING = FALSE, !.upc = "s_wait"]
    /\ UNCHANGED notMov

\* the older Renderer::setAnimation(anim) after its vTaskDelay: under LOCK and the LOCK of
\* CURRENTANIMATION, FRAMES->clear(), every frame of the Moving Bar pushed, RUNNING = true
MovSetAnimationCopy(barSize) ==
    /\ mov.upc = "s_wait"
    /\ mov.LOCK = "free" /\ mov.ALOCK = "free"
    /\ mov' = [mov EXCEPT !.FRAMES = createMovingBarAnimation(mov.LEDCOUNT, FullWhite, barSize),
                          !.RUNNING = TRUE,
                          !.moving = TRUE,
                          !.upc = "idle"]
    /\ UNCHANGED notMov

\* updateMovingBarAnimation: xSemaphoreTake(LOCK); the bar is moved and the new frame is
\* built; with neither button pressed LOCK is given back and the call returns
UpdateBarLock(upPressed, downPressed) ==
    /\ mov.pc = "ready"
    /\ mov.upc = "idle"
    /\ mov.LOCK = "free"
    /\ IF upPressed \/ downPressed
       THEN LET start == MovedBar(mov.barStart, upPressed, mov.LEDCOUNT)
                end == MovedBar(mov.barEnd, upPressed, mov.LEDCOUNT)
            IN mov' = [mov EXCEPT !.barStart = start,
                                  !.barEnd = end,
                                  !.frame = MovingBarFrame(start, end, mov.LEDCOUNT),
                                  !.LOCK = "control",
                                  !.upc = "u_take"]
       ELSE mov' = mov
    /\ UNCHANGED notMov

\* xSemaphoreTake(this->CURRENTANIMATION.LOCK, portMAX_DELAY)
UpdateBarTake ==
    /\ mov.upc = "u_take"
    /\ mov.ALOCK = "free"
    /\ mov' = [mov EXCEPT !.ALOCK = "control", !.upc = "u_clear"]
    /\ UNCHANGED notMov

\* the clear with both locks given back after it
UpdateBarClear_Unlocked ==
    /\ mov.upc = "u_clear"
    /\ mov' = [mov EXCEPT !.FRAMES = <<>>, !.ALOCK = "free", !.LOCK = "free", !.upc = "u_push"]
    /\ UNCHANGED notMov

\* this->CURRENTANIMATION.FRAMES->clear()
UpdateBarClear ==
    /\ mov.upc = "u_clear"
    /\ mov' = [mov EXCEPT !.FRAMES = <<>>, !.upc = "u_push"]
    /\ UNCHANGED notMov

\* this->CURRENTANIMATION.FRAMES->push_back(frame)
UpdateBarPush ==
    /\ mov.upc = "u_push"
    /\ mov' = [mov EXCEPT !.FRAMES = Append(@, mov.frame), !.upc = "u_give"]
    /\ UNCHANGED notMov

\* xSemaphoreGive(this->CURRENTANIMATION.LOCK); xSemaphoreGive(this->LOCK)
UpdateBarGive ==
    /\ mov.upc = "u_give"
    /\ mov' = [mov EXCEPT !.ALOCK = "free", !.LOCK = "free", !.frame = <<>>, !.upc = "idle"]
    /\ UNCHANGED notMov

\* render: xSemaphoreTake(rend->LOCK, portMAX_DELAY)
OldRenderTake ==
    /\ mov.pc = "ready"
    /\ mov.orpc = "idle"
    /\ mov.LOCK = "free"
    /\ mov' = [mov EXCEPT !.LOCK = "render", !.orpc = "o_running"]
    /\ UNCHANGED notMov

\* render: if (!rend->RUNNING) { xSemaphoreGive(rend->LOCK); return; }
OldRenderCheckRunning ==
    /\ mov.orpc = "o_running"
    /\ mov' = IF mov.RUNNING
              THEN [mov EXCEPT !.orpc = "o_empty"]
              ELSE [mov EXCEPT !.LOCK = "free", !.orpc = "idle"]
    /\ UNCHANGED notMov

\* render: under the LOCK of CURRENTANIMATION, if (FRAMES->empty()) both locks are given
\* back and render returns
OldRenderCheckEmpty ==
    /\ mov.orpc = "o_empty"
    /\ mov.ALOCK = "free"
    /\ mov' = IF mov.FRAMES = <<>>
              THEN [mov EXCEPT !.seen = 0, !.LOCK = "free", !.orpc = "idle"]
              ELSE [mov EXCEPT !.seen = Len(mov.FRAMES), !.orpc = "o_copy"]
    /\ UNCHANGED notMov

\* render: under the LOCK of CURRENTANIMATION, frames is a copy of FRAMES, frames[0] is
\* read, frameCount = frames.size(); both locks are given back
OldRenderCopy ==
    /\ mov.orpc = "o_copy"
    /\ mov.ALOCK = "free"
    /\ mov' = [mov EXCEPT !.frames = mov.FRAMES,
                          !.emptyRead = @ \/ mov.FRAMES = <<>>,
                          !.LOCK = "free",
                          !.orpc = "o_loop"]
    /\ UNCHANGED notMov

\* render: the loop over the copied frames; each turn reads the settings under LOCK
OldRenderLoop ==
    /\ mov.orpc = "o_loop"
    /\ mov.LOCK = "free"
    /\ mov' = [mov EXCEPT !.frames = <<>>, !.rendered = TRUE, !.orpc = "o_end"]
    /\ UNCHANGED notMov

\* render: if (!rend->REPEAT) rend->setRunning(false)
OldRenderEnd ==
    /\ mov.orpc = "o_end"
    /\ mov.LOCK = "free"
    /\ mov' = [mov EXCEPT !.RUNNING = IF mov.REPEAT THEN @ ELSE FALSE, !.orpc = "idle"]
    /\ UNCHANGED notMov

-----------------------------------------------------------------------------
(* cli.cpp: MenuSystem. An input is the line read from the serial monitor, a *)
(* sequence of characters; its handler is chosen by currentState             *)

\* MenuSystem(rend): currentState = MenuState::MAIN; no call made yet
MenuInit == [currentState |-> "MAIN", input |-> <<>>, call |-> <<>>]

notMenu == <<gen, bar, mov, asg, cloc, animVars, wr, old, rend, currentAnimation, screen, mutex_,
             rpc, renderLocals, dl, rTimer, controlVars, hist>>

\* the options of the animation menu, "1" to "12"
AnimationOptions ==
    {<<c>> : c \in {"1", "2", "3", "4", "5", "6", "7", "8", "9"}}
        \cup {<<"1", "0">>, <<"1", "1">>, <<"1", "2">>}

\* the lines typed at the menus
MenuInputs ==
    {<<c>> : c \in {"0", "1", "2", "3", "4", "5", "6", "7", "8", "x"}}
        \cup {<<"0", "5">>, <<"1", "2">>, <<"1", "3">>}

\* the numbers typed when a menu asks for a custom value, in the unit of the menu
CustomInputs == {0, 7, 300}

\* processMainMenuInput: a single character '1' to '7' selects a menu; any
\* other line is answered with a message
processMainMenuInput(input) ==
    /\ menu.currentState = "MAIN"
    /\ menu' = [menu EXCEPT
                   !.input = input,
                   !.currentState =
                       IF Len(input) # 1 THEN @
                       ELSE CASE input[1] = "1" -> "ANIMATION_SELECT"
                              [] input[1] = "2" -> "BRIGHTNESS_SETTINGS"
                              [] input[1] = "3" -> "SPEED_SETTINGS"
                              [] input[1] = "4" -> "LED_COUNT_SETTINGS"
                              [] input[1] = "5" -> "REPEAT_SETTINGS"
                              [] input[1] = "6" -> "MODE_SETTINGS"
                              [] input[1] = "7" -> "SYSTEM_INFO"
                              [] OTHER -> @]
    /\ UNCHANGED notMenu

\* processAnimationMenuInput: "0" returns to the main menu; "1" to "12" build
\* the animation and call renderer->setAnimation; any other line is invalid
processAnimationMenuInput(input) ==
    /\ menu.currentState = "ANIMATION_SELECT"
    /\ menu' = IF input = <<"0">>
               THEN [menu EXCEPT !.input = input, !.currentState = "MAIN"]
               ELSE IF input \in AnimationOptions
               THEN [menu EXCEPT !.input = input, !.call = <<"setAnimation", input>>]
               ELSE [menu EXCEPT !.input = input]
    /\ UNCHANGED notMenu

\* the menu that ignores "0"
processBrightnessMenuInput_NoBack(input, custom) ==
    /\ menu.currentState = "BRIGHTNESS_SETTINGS"
    /\ LET option == input[1]
           preset == [c \in {"1", "2", "3", "4", "5", "6"} |->
                        CASE c = "1" -> 10 [] c = "2" -> 25 [] c = "3" -> 50
                          [] c = "4" -> 75 [] c = "5" -> 100 [] OTHER -> 0]
       IN menu' = IF option \in DOMAIN preset
                  THEN [menu EXCEPT !.input = input,
                                    !.call = <<"setPeakBrightness", preset[option]>>]
                  ELSE IF option = "7" /\ custom >= 0 /\ custom <= 100
                  THEN [menu EXCEPT !.input = input, !.call = <<"setPeakBrightness", custom>>]
                  ELSE [menu EXCEPT !.input = input]
    /\ UNCHANGED notMenu

\* processBrightnessMenuInput: option = input.charAt(0); '0' returns to the
\* main menu; '1' to '6' set a brightness, in hundredths; '7' reads a custom
\* brightness and sets it if it is between 0.0 and 1.0
processBrightnessMenuInput(input, custom) ==
    /\ menu.currentState = "BRIGHTNESS_SETTINGS"
    /\ LET option == input[1]
           preset == [c \in {"1", "2", "3", "4", "5", "6"} |->
                        CASE c = "1" -> 10 [] c = "2" -> 25 [] c = "3" -> 50
                          [] c = "4" -> 75 [] c = "5" -> 100 [] OTHER -> 0]
       IN menu' = IF option = "0"
                  THEN [menu EXCEPT !.input = input, !.currentState = "MAIN"]
                  ELSE IF option \in DOMAIN preset
                  THEN [menu EXCEPT !.input = input,
                                    !.call = <<"setPeakBrightness", preset[option]>>]
                  ELSE IF option = "7" /\ custom >= 0 /\ custom <= 100
                  THEN [menu EXCEPT !.input = input, !.call = <<"setPeakBrightness", custom>>]
                  ELSE [menu EXCEPT !.input = input]
    /\ UNCHANGED notMenu

\* processSpeedMenuInput: '0' returns to the main menu; '1' to '5' set a
\* speed, in hundredths; '6' reads a custom speed and sets it if it is
\* between 0.0 and 10.0
processSpeedMenuInput(input, custom) ==
    /\ menu.currentState = "SPEED_SETTINGS"
    /\ LET option == input[1]
           preset == [c \in {"1", "2", "3", "4", "5"} |->
                        CASE c = "1" -> 25 [] c = "2" -> 50 [] c = "3" -> 100
                          [] c = "4" -> 150 [] OTHER -> 200]
       IN menu' = IF option = "0"
                  THEN [menu EXCEPT !.input = input, !.currentState = "MAIN"]
                  ELSE IF option \in DOMAIN preset
                  THEN [menu EXCEPT !.input = input, !.call = <<"setSpeed", preset[option]>>]
                  ELSE IF option = "6" /\ custom >= 0 /\ custom <= 1000
                  THEN [menu EXCEPT !.input = input, !.call = <<"setSpeed", custom>>]
                  ELSE [menu EXCEPT !.input = input]
    /\ UNCHANGED notMenu

\* processLEDCountMenuInput: '0' returns to the main menu; '1' to '4' set 5,
\* 10, 15 or 20 LEDs; '5' reads a custom count, converts it to uint8_t and
\* sets it if it is between 1 and getMaxLEDCount()
processLEDCountMenuInput(input, custom) ==
    /\ menu.currentState = "LED_COUNT_SETTINGS"
    /\ LET option == input[1]
           preset == [c \in {"1", "2", "3", "4"} |->
                        CASE c = "1" -> 5 [] c = "2" -> 10 [] c = "3" -> 15 [] OTHER -> 20]
           ledCount == custom % Uint8Modulus
       IN menu' = IF option = "0"
                  THEN [menu EXCEPT !.input = input, !.currentState = "MAIN"]
                  ELSE IF option \in DOMAIN preset
                  THEN [menu EXCEPT !.input = input, !.call = <<"setLEDCount", preset[option]>>]
                  ELSE IF option = "5" /\ ledCount >= 1 /\ ledCount <= OldMaxLEDCount
                  THEN [menu EXCEPT !.input = input, !.call = <<"setLEDCount", ledCount>>]
                  ELSE [menu EXCEPT !.input = input]
    /\ UNCHANGED notMenu

\* processInput, default: in REPEAT_SETTINGS, MODE_SETTINGS and SYSTEM_INFO
\* any input returns to the main menu
processInputDefault(input) ==
    /\ menu.currentState \in {"REPEAT_SETTINGS", "MODE_SETTINGS", "SYSTEM_INFO"}
    /\ menu' = [menu EXCEPT !.input = input, !.currentState = "MAIN"]
    /\ UNCHANGED notMenu

\* processInput(input): the handler of the current state
processInput(input) ==
    \/ processMainMenuInput(input)
    \/ processAnimationMenuInput(input)
    \/ \E custom \in CustomInputs :
          \/ processBrightnessMenuInput(input, custom)
          \/ processSpeedMenuInput(input, custom)
          \/ processLEDCountMenuInput(input, custom)
    \/ processInputDefault(input)

-----------------------------------------------------------------------------
(* vTaskDelay: the passage of time *)

RenderSleeping == rpc \in {"d_sleep", "d_rsleep"} /\ rTimer > 0
ControlSleeping == cpc = "sa_wait" /\ cTimer > 0
ControlQuiet == cpc \in {"idle", "blocked"}

\* time advances to the next expiry of a vTaskDelay
Tick ==
    /\ RenderSleeping
    /\ ControlSleeping \/ ControlQuiet
    /\ LET d == IF ControlSleeping THEN Min(rTimer, cTimer) ELSE rTimer
       IN /\ rTimer' = rTimer - d
          /\ cTimer' = IF ControlSleeping THEN cTimer - d ELSE cTimer
    /\ UNCHANGED <<otherVars, rend, currentAnimation, screen, mutex_, rpc, renderLocals, dl,
                   cpc, cArg, hist>>

-----------------------------------------------------------------------------
(* The system: ESP32Animator.ino constructs the Renderer and starts renderTask *)

Init ==
    /\ rend = RendererInit
    /\ currentAnimation = EmptyAnimation
    /\ screen = ScreenInit(DefaultLedCount)
    /\ mutex_ = "free"
    /\ rpc = "t_init"
    /\ tstate = TimingOf(RenderStateDefault)
    /\ state = RenderStateDefault
    /\ previousNameHash = <<0, 0>>
    /\ frameCount = 0
    /\ frameindex = 0
    /\ dl = DelayIdle
    /\ rTimer = 0
    /\ cpc = "idle"
    /\ cArg = EmptyAnimation
    /\ cTimer = 0
    /\ wr = WriteIdle
    /\ old = OldRendererInit
    /\ objs = ObjsInit
    /\ oldObjs = OldObjsInit
    /\ asg = AsgInit
    /\ cloc = ControlLocalsInit
    /\ gen = GenInit
    /\ bar = BarInit
    /\ mov = MovInit
    /\ menu = MenuInit
    /\ hist = HistInit

Next ==
    \/ renderTask
    \/ controlTask
    \/ Tick

Spec == Init /\ [][Next]_vars

-----------------------------------------------------------------------------
(* The system under fair scheduling: the render task runs, time passes, a   *)
(* setAnimation that was called returns; the control task calls what it     *)
(* likes, or nothing, and never the setRepeat(true) that blocks on mutex_   *)

controlFair ==
    \/ \E anim \in Catalogue : SetAnimationStop(anim)
    \/ SetAnimationSwap
    \/ SetRepeat(FALSE)
    \/ \E speed \in SpeedInputs : SetSpeed(speed)
    \/ SetEarlyExit(TRUE)
    \/ \E ms \in RepeatDelayInputs : SetRepeatDelayMs(ms)

NextFair ==
    \/ renderTask
    \/ controlFair
    \/ Tick

FairSpec ==
    /\ Init
    /\ [][NextFair]_vars
    /\ WF_vars(renderTask)
    /\ WF_vars(Tick)
    /\ WF_vars(SetAnimationSwap)

-----------------------------------------------------------------------------
(* Renderer::interruptableDelay on its own: a caller that calls it with any *)
(* duration and check interval, and a control task that sets exitEarly      *)

\* the caller calls interruptableDelay(milliseconds, checkEveryMs)
DelayCall(milliseconds, checkEveryMs) ==
    /\ rpc = "call"
    /\ dl' = DelayEnter("call", milliseconds, checkEveryMs)
    /\ rpc' = "d_loop"
    /\ UNCHANGED <<otherVars, rend, currentAnimation, screen, mutex_, renderLocals, rTimer,
                   controlVars, hist>>

\* the caller clears the flag, as render() and renderTask do: setEarlyExit(false)
DelayCallerClear ==
    /\ rpc = "call"
    /\ mutex_ = "free"
    /\ rend.exitEarly
    /\ rend' = [rend EXCEPT !.exitEarly = FALSE]
    /\ UNCHANGED <<otherVars, currentAnimation, screen, mutex_, rpc, renderLocals, dl, rTimer,
                   controlVars, hist>>

InitDelay ==
    /\ rend = RendererInit
    /\ currentAnimation = EmptyAnimation
    /\ screen = ScreenInit(DefaultLedCount)
    /\ mutex_ = "free"
    /\ rpc = "call"
    /\ tstate = TimingOf(RenderStateDefault)
    /\ state = RenderStateDefault
    /\ previousNameHash = <<0, 0>>
    /\ frameCount = 0
    /\ frameindex = 0
    /\ dl = DelayIdle
    /\ rTimer = 0
    /\ cpc = "idle"
    /\ cArg = EmptyAnimation
    /\ cTimer = 0
    /\ wr = WriteIdle
    /\ old = OldRendererInit
    /\ objs = ObjsInit
    /\ oldObjs = OldObjsInit
    /\ asg = AsgInit
    /\ cloc = ControlLocalsInit
    /\ gen = GenInit
    /\ bar = BarInit
    /\ mov = MovInit
    /\ menu = MenuInit
    /\ hist = HistInit

NextDelay ==
    \/ \E milliseconds \in 0..MaxDelayMs, checkEveryMs \in 1..MaxCheckMs :
          DelayCall(milliseconds, checkEveryMs)
    \/ DelayLoopPoll
    \/ DelayLoopWake
    \/ DelayRemainderPoll
    \/ DelayRemainderWake
    \/ DelayFinalPoll
    \/ DelayReturn
    \/ DelayCallerClear
    \/ SetEarlyExit(TRUE)
    \/ Tick

SpecDelay == InitDelay /\ [][NextDelay]_vars

-----------------------------------------------------------------------------
(* Frame writes on their own: a render task that calls writeFrameToScreen   *)
(* with any frame, a control task that changes brightness and LED count and *)
(* clears the strip, and the pixel loop of the older render()               *)

ScreenBrightnessInputs == {50, 150}
ScreenLedCountInputs == {0, 5, 8}

InitScreen ==
    /\ rend = RendererInit
    /\ currentAnimation = EmptyAnimation
    /\ screen = ScreenInit(DefaultLedCount)
    /\ mutex_ = "free"
    /\ rpc = "w_idle"
    /\ tstate = TimingOf(RenderStateDefault)
    /\ state = RenderStateDefault
    /\ previousNameHash = <<0, 0>>
    /\ frameCount = 0
    /\ frameindex = 0
    /\ dl = DelayIdle
    /\ rTimer = 0
    /\ cpc = "idle"
    /\ cArg = EmptyAnimation
    /\ cTimer = 0
    /\ wr = WriteIdle
    /\ old = OldRendererInit
    /\ objs = ObjsInit
    /\ oldObjs = OldObjsInit
    /\ asg = AsgInit
    /\ cloc = ControlLocalsInit
    /\ gen = GenInit
    /\ bar = BarInit
    /\ mov = MovInit
    /\ menu = MenuInit
    /\ hist = HistInit

NextScreen ==
    \/ \E frame \in ScreenFrames : WriteCall(frame)
    \/ WriteLock
    \/ WritePixel
    \/ WriteShow
    \/ \E brightness \in ScreenBrightnessInputs : SetPeakBrightness(brightness)
    \/ \E n \in ScreenLedCountInputs : SetLedCount(n)
    \/ ClearScreen
    \/ ShowScreen
    \/ \E count \in OldLedCountInputs : OldSetLEDCount(count)
    \/ OldClearScreen
    \/ \E frame \in OldFrames : OldRenderFrame(frame)

SpecScreen == InitScreen /\ [][NextScreen]_vars

-----------------------------------------------------------------------------
(* The configuration mutators on their own: a control task that calls them *)
(* with values in and out of range                                         *)

\* speeds in tenths, frame delays in ms
SpeedFloorInputs == {-10, 0, 1, 5, 20}
FrameDelayInputs == {0, 125}

NextConfig ==
    \/ \E speed \in SpeedFloorInputs : SetSpeed(speed)
    \/ \E brightness \in BrightnessInputs : SetPeakBrightness(brightness)
    \/ \E n \in LedCountInputs : SetLedCount(n)
    \/ \E ms \in FrameDelayInputs : SetFrameDelayMs(ms)

SpecConfig == Init /\ [][NextConfig]_vars

-----------------------------------------------------------------------------
(* The Animation and Pixel objects on their own: a caller that constructs, *)
(* copies, moves, changes and destroys them                                 *)

NextAnimation ==
    \/ \E o \in Objects : AnimationDefault(o)
    \/ \E o \in Objects, namestr \in NameInputs, frames \in BufferInputs :
          AnimationNew(o, namestr, frames)
    \/ \E o \in Objects : AnimationCopy(o)
    \/ \E o \in Objects : AnimationMove(o)
    \/ \E o \in Objects : CopyAssign(o)
    \/ \E o \in Objects : MoveAssign(o)
    \/ \E o \in Objects, namestr \in NameInputs : SetName(o, namestr)
    \/ \E o \in Objects, frames \in BufferInputs : SetFrames(o, frames)
    \/ \E o \in Objects : ClearFrames(o)
    \/ \E o \in Objects : AnimationDestroy(o)

SpecAnimation == Init /\ [][NextAnimation]_vars

NextPixel ==
    \/ \E other \in PixelInputs : PixelNew(other)
    \/ \E other \in PixelInputs : PixelCopyAssign(other)
    \/ PixelSelfAssign

SpecPixel == Init /\ [][NextPixel]_vars

NextOldAnimation ==
    \/ \E o \in Objects, namestr \in NameInputs : OldAnimationNew(o, namestr)
    \/ \E o \in Objects : OldAnimationCopy(o)
    \/ \E o \in Objects : OldCopyAssign(o)
    \/ \E o \in Objects, frames \in OldBufferInputs : OldFill(o, frames)
    \/ \E o \in Objects : OldAnimationDestroy(o)

SpecOldAnimation == Init /\ [][NextOldAnimation]_vars

-----------------------------------------------------------------------------
(* The mutex on its own: a render task inside writeFrameToScreen and a      *)
(* control task that calls mutators, with and without a lock_guard           *)

LockFrames == {TestFrame(1)}
LockBrightnessInputs == {50}

NextLocks ==
    \/ \E frame \in LockFrames : WriteCall(frame)
    \/ WriteLock
    \/ WritePixel
    \/ WriteShow
    \/ \E brightness \in LockBrightnessInputs : SetPeakBrightness(brightness)
    \/ \E ms \in FrameDelayInputs : SetFrameDelayMs(ms)
    \/ \E ms \in RepeatDelayInputs : SetRepeatDelayMs(ms)
    \/ \E pixel \in SetPixelInputs : SetPixelColorCheck(pixel)
    \/ SetPixelColorWrite

SpecLocks == InitScreen /\ [][NextLocks]_vars

-----------------------------------------------------------------------------
(* initializeScreen on its own: a control task that sets the LED count,     *)
(* stages pixels and calls initializeScreen, which runs to its end if it     *)
(* has one                                                                    *)

InitLedCountInputs == {0, 5, 300}

NextInitScreen ==
    \/ \E n \in InitLedCountInputs : SetLedCount(n)
    \/ \E pixel \in SetPixelInputs : SetPixelColorCheck(pixel)
    \/ SetPixelColorWrite
    \/ ShowScreen
    \/ InitializeScreenLock
    \/ InitializeScreenLoop
    \/ InitializeScreenShow

SpecInitScreen == Init /\ [][NextInitScreen]_vars /\ WF_vars(initializeScreen)

-----------------------------------------------------------------------------
(* Two contexts assigning a and b into each other: each context runs while  *)
(* it can, a mutex that is free again and again is eventually taken by the   *)
(* context that wants it, and a call is made or not                          *)

AssignSteps(o) ==
    \/ AssignLockFirst(o)
    \/ AssignTryLocked(o)
    \/ AssignBackOff(o)
    \/ AssignBody(o)
    \/ AssignReturn(o)

NextAssign ==
    \/ \E namestr \in NameInputs, frames \in BufferInputs : AnimationNew("b", namestr, frames)
    \/ \E o \in Objects, kind \in AssignKinds : AssignCall(o, kind)
    \/ \E o \in Objects : AssignSteps(o)

SpecAssign ==
    /\ Init
    /\ [][NextAssign]_vars
    /\ \A o \in Objects : /\ WF_vars(AssignSteps(o))
                          /\ SF_vars(AssignLockFirst(o))
                          /\ SF_vars(AssignTryLocked(o))

-----------------------------------------------------------------------------
(* The generators on their own: a caller that calls them with any arguments *)

NextGenerators ==
    \/ \E ledCount \in GenLedCounts, maxBrightness \in GenBrightnesses,
          retentionTime \in GenRetentionTimes, abruptFade \in BOOLEAN :
          \/ CreateExtinguishingBar(ledCount, maxBrightness, retentionTime, abruptFade)
          \/ CreateExtinguishingBarEarlier(ledCount, maxBrightness, retentionTime, abruptFade)
    \/ \E ledCount \in GenLedCounts, abruptFade \in BOOLEAN, clockwise \in BOOLEAN,
          trailLength \in GenTrailLengths, brightness \in GenBrightnesses :
          CreateCirclingBrightDot(ledCount, abruptFade, clockwise, trailLength, brightness)

SpecGenerators == Init /\ [][NextGenerators]_vars

-----------------------------------------------------------------------------
(* The bar generators on their own, called with every combination of the    *)
(* strip lengths, heights and distances of BarGenLedCounts and BarGenHeights *)

NextBars ==
    \/ \E ledCount \in BarGenLedCounts, maxBrightness \in BarGenBrightnesses,
          startHeight \in BarGenHeights, endHeight \in BarGenEndHeights,
          abruptFade \in BOOLEAN, interactive \in BOOLEAN :
          \/ CreateGrowingBar(ledCount, maxBrightness, startHeight, endHeight, abruptFade,
                              interactive)
          \/ CreateShrinkingBar(ledCount, maxBrightness, startHeight, endHeight, abruptFade,
                                interactive)
    \/ \E ledCount \in BarGenLedCounts, maxBrightness \in BarGenBrightnesses,
          endDistance \in BarGenHeights, abruptFade \in BOOLEAN :
          CreateExtendingBar(ledCount, maxBrightness, endDistance, abruptFade)
    \/ \E ledCount \in BarGenLedCounts, brightness \in BarGenBrightnesses,
          barSize \in BarGenHeights :
          CreateMovingBar(ledCount, brightness, barSize)

SpecBars == Init /\ [][NextBars]_vars

-----------------------------------------------------------------------------
(* The Moving Bar under two tasks: the control task sets the Moving Bar and  *)
(* presses the buttons, the render task calls render() again and again       *)

NextMovingRender ==
    \/ \E ledCount \in MovLedCounts, repeat \in BOOLEAN :
          \E start \in 0..(ledCount - 1), end \in 0..(ledCount - 1) :
              MovRendererNew(ledCount, start, end, repeat)
    \/ MovSetAnimationStop
    \/ \E barSize \in BarSizes : MovSetAnimationCopy(barSize)
    \/ \E upPressed \in BOOLEAN, downPressed \in BOOLEAN : UpdateBarLock(upPressed, downPressed)
    \/ UpdateBarTake
    \/ UpdateBarClear
    \/ UpdateBarPush
    \/ UpdateBarGive
    \/ OldRenderTake
    \/ OldRenderCheckRunning
    \/ OldRenderCheckEmpty
    \/ OldRenderCopy
    \/ OldRenderLoop
    \/ OldRenderEnd

SpecMovingRender == Init /\ [][NextMovingRender]_vars

-----------------------------------------------------------------------------
(* The menu on its own: every line of MenuInputs typed at every menu         *)

NextMenu == \E input \in MenuInputs : processInput(input)

SpecMenu == Init /\ [][NextMenu]_vars

-----------------------------------------------------------------------------
(* The Moving Bar on its own: a Renderer of any length, the Moving Bar set  *)
(* as its animation, and the buttons pressed in any order                    *)

NextMovingBar ==
    \/ \E ledCount \in BarLedCounts :
          \E start \in 0..(ledCount - 1), end \in 0..(ledCount - 1) :
              BarRendererNew(ledCount, start, end)
    \/ \E brightness \in BarBrightnesses, barSize \in BarSizes : SetMovingBar(brightness, barSize)
    \/ \E upPressed \in BOOLEAN, downPressed \in BOOLEAN :
          UpdateMovingBarAnimation(upPressed, downPressed)

SpecMovingBar == Init /\ [][NextMovingBar]_vars

-----------------------------------------------------------------------------
(* Playback left alone: the control task sets one animation that has frames *)
(* on the new Renderer and calls nothing more; the render task runs and     *)
(* time passes                                                               *)

\* the steps of the render task that need no control operation to be taken
renderPlaying ==
    \/ TaskInit
    \/ TaskCheckRunning
    \/ RenderCheckRunning
    \/ RenderCheckEmpty
    \/ RenderSnapshot
    \/ RenderGetFrames
    \/ RenderLoopHead
    \/ RenderWriteFrame
    \/ RenderNextFrame
    \/ TaskDelay
    \/ DelayLoopPoll
    \/ DelayLoopWake
    \/ DelayFinalPoll
    \/ DelayReturn

\* the other steps of the render task: the returns of render() from a stopped
\* Renderer, on exitEarly and on repeat false, and the remainder of a delay
\* that is no multiple of the check interval
renderDisturbed ==
    \/ RenderReturnState
    \/ RenderClearEarlyExit
    \/ RenderStopNoRepeat
    \/ TaskClearEarlyExit
    \/ DelayRemainderPoll
    \/ DelayRemainderWake

NextPlaying ==
    \/ renderPlaying
    \/ \E anim \in Catalogue \ {EmptyAnimation} :
          currentAnimation = EmptyAnimation /\ SetAnimationStop(anim)
    \/ SetAnimationSwap
    \/ Tick

SpecPlaying ==
    /\ Init
    /\ [][NextPlaying]_vars
    /\ WF_vars(renderPlaying)
    /\ WF_vars(Tick)
    /\ WF_vars(SetAnimationSwap)

-----------------------------------------------------------------------------
(* Interrupted playback: the control task sets one animation that has       *)
(* frames, and sets exitEarly, a speed and repeat when it likes; the render *)
(* task runs while it can and time passes                                    *)

NextInterrupt ==
    \/ renderTask
    \/ \E anim \in Catalogue \ {EmptyAnimation} :
          currentAnimation = EmptyAnimation /\ SetAnimationStop(anim)
    \/ SetAnimationSwap
    \/ SetEarlyExit(TRUE)
    \/ \E repeat \in BOOLEAN : SetRepeat(repeat)
    \/ \E speed \in SpeedInputs : SetSpeed(speed)
    \/ Tick

SpecInterrupt ==
    /\ Init
    /\ [][NextInterrupt]_vars
    /\ WF_vars(renderTask)
    /\ WF_vars(Tick)
    /\ WF_vars(SetAnimationSwap)

-----------------------------------------------------------------------------
(* The brightness on its own: a control task that starts and stops the      *)
(* Renderer, sets exitEarly, sets repeat false and sets the peak            *)
(* brightness, on the Renderer and on the older one                         *)

NextBrightness ==
    \/ \E running \in BOOLEAN : SetRunning(running)
    \/ SetEarlyExit(TRUE)
    \/ SetRepeat(FALSE)
    \/ \E brightness \in BrightnessInputs : SetPeakBrightness(brightness)
    \/ \E running \in BOOLEAN : OldSetRunning(running)
    \/ \E brightness \in BrightnessInputs : OldSetPeakBrightness(brightness)

SpecBrightness == Init /\ [][NextBrightness]_vars

-----------------------------------------------------------------------------
(* Properties of Renderer::setAnimation and of the render pass *)

\* the steps of setAnimation
StopStep == cpc = "idle" /\ cpc' = "sa_wait"
SwapStep == cpc = "sa_wait" /\ cpc' = "idle"
\* the step of render() that writes a frame
WriteStep == rpc = "r_write" /\ rpc' = "d_loop"

\* C1: setAnimation(newAnim) first sets isRunning false and leaves the
\* Animation alone, then waits repeatDelayMs during which it changes nothing,
\* then replaces the Animation and sets isRunning true: at that step, where it
\* returns, isRunning is true and the current Animation has the name, the
\* nameHash and the frames of newAnim.
C1_SetAnimationOrder ==
    [][ /\ StopStep => /\ ~rend'.isRunning_
                       /\ currentAnimation' = currentAnimation
                       /\ cTimer' = rend.repeatDelayMs
        /\ cpc = "sa_wait" /\ ~SwapStep =>
                       /\ currentAnimation' = currentAnimation
                       /\ cArg' = cArg
                       /\ cTimer' <= cTimer
                       /\ cTimer' < cTimer => cTimer - cTimer' = rTimer - rTimer'
        /\ SwapStep => /\ cTimer = 0
                       /\ rend'.isRunning_
                       /\ currentAnimation'.name_ = cArg.name_
                       /\ currentAnimation'.nameHash_ = hash_string_runtime(cArg.name_)
                       /\ currentAnimation'.frames_ = cArg.frames_ ]_vars

\* C2: at the step where setAnimation replaces the Animation, no render pass
\* is iterating over the frame buffer.
C2_NoPassAtSwap == [][SwapStep => ~Iterating]_vars

\* C3: when render() reads frames[frameindex], the frame count it iterates
\* with is the length of the buffer it reads.
C3_ReadMatchesCount == rpc = "r_write" => frameCount = Len(currentAnimation.frames_)

\* C4: after setAnimation installed an animation of another name during the
\* frame delay of a pass, the next frame written is a frame 0 of a new pass
\* (the old pass does not resume), and such a frame 0 is eventually written
\* unless the control task makes another call.
C4_PassAbandoned ==
    /\ [][WriteStep /\ hist.pending => frameindex = 0]_vars
    /\ (hist.pending ~> (hist.shown0 \/ ~hist.installed))

\* C5: after setAnimation returned with a non-empty animation, frame 0 is
\* eventually written, unless the control task makes another call.
C5_EventuallyShown == hist.installed ~> (hist.shown0 \/ ~hist.installed)

\* C6: when the pass stops because repeat is false, and the Animation is the
\* one the pass began with, every frame has been written, in order.
C6_StopAfterLastFrame ==
    [][ /\ rpc = "r_repeat"
        /\ rpc' = "r_ret"
        /\ currentAnimation.nameHash_ = state.currentAnimationHash
        /\ Len(currentAnimation.frames_) = frameCount
        => hist.passWrites = [k \in 1..frameCount |-> k - 1] ]_vars

\* C7: while isRunning stays false at most one frame is written (the one
\* whose write was decided before the stop).
C7_OneFrameAfterStop == [][WriteStep /\ ~rend.isRunning_ => ~hist.wroteStopped]_vars

\* C7 witness: isRunning is false, the one frame was written since and the
\* pass sleeps in the delay that follows it.
C7_Witness ==
    /\ ~rend.isRunning_
    /\ hist.wroteStopped
    /\ InFrameDelay
    /\ rpc = "d_sleep"

\* C8: every call of setSpeed leaves exitEarly true.
C8_SetSpeedWakes == [][(\E speed \in SpeedInputs : SetSpeed(speed)) => rend'.exitEarly]_vars

-----------------------------------------------------------------------------
(* Properties of the frame write and of the mutators *)

\* the step at which writeFrameToScreen flushes and returns
WriteDone == rpc = "w_pixel" /\ rpc' = "w_idle"
\* the step of the older render() that runs the pixel loop
OldWriteDone == old.pc = "cleared" /\ old'.pc = "idle"

\* the pixels of frame that name LED i
Hits(frame, i) == {k \in 1..Len(frame) : frame[k].index = i}

LastHit(frame, i) == CHOOSE k \in Hits(frame, i) : \A j \in Hits(frame, i) : j <= k

Clamp01(x) == IF x < 0 THEN 0 ELSE IF x > 100 THEN 100 ELSE x

\* C15: setPeakBrightness(x) stores clamp(x, 0.0, 1.0), and the stored
\* brightness is always within [0, 1].
C15_BrightnessClamp ==
    /\ [](rend.peakBrightnessCoefficient \in 0..100)
    /\ [][\A x \in BrightnessInputs :
            SetPeakBrightness(x) => rend'.peakBrightnessCoefficient = Clamp01(x)]_vars

\* C15 witness: the brightness is 1.0 after a call, which only the input 1.5
\* or the input 1.0 leaves, and the speed was changed too.
C15_Witness ==
    /\ rend.peakBrightnessCoefficient = 100
    /\ rend.speedCoefficient = 5

\* C16: setLedCount(n) with n = 0 or n above 65535 changes neither ledCount
\* nor the strip; with any other n it stores n and leaves a strip of n LEDs;
\* ledCount is always within 1..65535.
C16_LedCountRange ==
    /\ [](rend.ledCount \in 1..(Uint16Modulus - 1))
    /\ [][\A n \in LedCountInputs :
            SetLedCount(n) =>
                IF n = 0 \/ n > Uint16Modulus - 1
                THEN rend'.ledCount = rend.ledCount /\ screen' = screen
                ELSE /\ rend'.ledCount = n
                     /\ DOMAIN screen'.staged = 0..(n - 1)]_vars

-----------------------------------------------------------------------------
(* Properties of the Animation and Pixel objects *)

\* a call on the objects has just been made by this step
AnimationStep(ops, o) == objs' # objs /\ objs'.last.op \in ops /\ objs'.last.o = o
OldAnimationStep(ops, o) ==
    oldObjs' # oldObjs /\ oldObjs'.last.op \in ops /\ oldObjs'.last.o = o

\* C17: after any sequence of constructions, setName, setFrames, clearFrames,
\* copies and moves, every Animation alive, the source of a move included,
\* has as nameHash the DJB2 hash of its current name.
C17_NameHashOfName ==
    \A o \in objs.live : objs[o].nameHash_ = hash_string_runtime(objs[o].name_)

\* C18: copying an Animation is a deep copy: a call that replaces, clears or
\* destroys the frames of one object leaves the name and the frames of the
\* other object as they were, in animation.h and in the older animation.h.
C18_DeepCopy ==
    [][ \A o \in Objects :
          /\ (AnimationStep({"setFrames", "clearFrames", "destroy"}, o)
                => objs'[Other(o)] = objs[Other(o)])
          /\ (OldAnimationStep({"fill", "destroy"}, o)
              /\ Other(o) \in oldObjs.live
                => /\ oldObjs'[Other(o)].NAME = oldObjs[Other(o)].NAME
                   /\ OldFramesOf(oldObjs', Other(o)) = OldFramesOf(oldObjs, Other(o))) ]_vars

\* C19: after setFrames(B), or after assignment from an Animation holding B,
\* getFramesDeepCopy() is B, index and colour of every pixel of every frame,
\* and frameCount() is the length of B, whatever the Animation held before.
C19_ReplaceExact ==
    [][ \A o \in Objects :
          AnimationStep({"setFrames", "CopyAssign"}, o)
            => /\ getFramesDeepCopy(objs'[o]) = objs'.last.arg
               /\ frameCount_(objs'[o]) = Len(objs'.last.arg) ]_vars

\* C20: p = other leaves p.index as it was and gives p the r, g and b of
\* other; p = p changes nothing.
C20_PixelAssign ==
    [][ /\ (AnimationStep({"pixelAssign"}, "p")
              => /\ objs'.p.index = objs.p.index
                 /\ <<objs'.p.r, objs'.p.g, objs'.p.b>> =
                      <<objs'.last.arg.r, objs'.last.arg.g, objs'.last.arg.b>>)
        /\ (AnimationStep({"pixelSelfAssign"}, "p") => objs'.p = objs.p) ]_vars

\* C20 witness: p = other has run with an other of another index and another
\* colour than p had: p has kept its index 65535 and has the colour of other.
C20_Witness ==
    /\ objs.last.op = "pixelAssign"
    /\ objs.p.index = 65535
    /\ objs.last.arg.index = 4
    /\ <<objs.p.r, objs.p.g, objs.p.b>> = <<200, 55, 100>>
    /\ objs.last.arg = Pixel(4, 200, 55, 100)

\* C21: a = b in one context and b = a in the other, by copy or by move,
\* never deadlock: an assignment runs with both objects' mutexes held by its
\* context, and every assignment that was called returns.
C21_AssignNoDeadlock ==
    /\ [](\A o \in Objects :
            asg.pc[o] \in {"assign", "return"} => \A x \in Objects : asg.mtx[x] = o)
    /\ \A o \in Objects : (asg.pc[o] # "idle") ~> (asg.pc[o] = "idle")

\* C21 witness: the context of a = b holds a's mutex and the context of
\* b = a holds b's: each has found the other's mutex taken.
C21_Witness ==
    /\ asg.pc["a"] = "try2"
    /\ asg.pc["b"] = "try2"
    /\ asg.mtx = [a |-> "a", b |-> "b"]

-----------------------------------------------------------------------------
(* Properties of the Renderer's mutex and of initializeScreen *)

\* the step is one of the render task
RenderTaskStep == rpc' # rpc \/ wr' # wr

\* the step reads or writes a field of the Renderer: it changes one, or it is
\* the test of pixel.index against ledCount in setPixelColor
FieldAccess ==
    \/ rend' # rend
    \/ currentAnimation' # currentAnimation
    \/ screen' # screen
    \/ cpc = "idle" /\ cpc' = "spc_lock"

\* C22: every read and write of a Renderer field is made by an operation that
\* holds the Renderer mutex: no context accesses a field while the other
\* context holds the mutex.
C22_FieldsUnderMutex ==
    [][ FieldAccess =>
          \/ mutex_ = "free"
          \/ mutex_ = "render" /\ RenderTaskStep
          \/ mutex_ = "control" /\ ~RenderTaskStep ]_vars

\* the strip is dark, flushed, and as long as ledCount
ScreenCleared ==
    /\ DOMAIN screen.staged = 0..(rend.ledCount - 1)
    /\ \A k \in DOMAIN screen.staged : screen.staged[k] = Off
    /\ screen.shown = screen.staged

\* C26: initializeScreen, called for the first time or again, after an
\* accepted setLedCount or not, returns with the strip as long as ledCount,
\* every LED off and that state flushed, and changes no configuration field.
C26_InitializeScreenIdempotent ==
    /\ [][cpc = "is_loop" \/ cpc' = "is_loop" => rend' = rend]_vars
    /\ [][cpc = "is_loop" /\ cpc' = "idle" => ScreenCleared']_vars
    /\ (cpc = "is_loop") ~> (cpc = "idle")

-----------------------------------------------------------------------------
(* Properties of the running state, of setRepeat and of the idle render() *)

\* the step is a whole call of setRunning made by the control context
SetRunningStep ==
    /\ cpc = "idle" /\ cpc' = "idle"
    /\ rpc' = rpc
    /\ rend' = [rend EXCEPT !.isRunning_ = rend'.isRunning_]

\* the step is render() stopping the animation after the delay of its last
\* frame, repeat being false
CompletionStep ==
    /\ rpc = "r_repeat" /\ rpc' = "r_ret"
    /\ ~rend.repeat
    /\ frameindex = frameCount - 1
    /\ ~rend'.isRunning_

\* the step is render() leaving the pass at the head of the loop because the
\* name hash differs from the one of the previous frame
HashChangeStep ==
    /\ rpc = "r_loop" /\ rpc' = "r_ret"
    /\ state.currentAnimationHash # previousNameHash
    /\ ~rend'.isRunning_

\* C23: isRunning changes only in these steps: to true when setAnimation
\* completes or in setRunning(true); to false in setRunning(false), when the
\* animation has completed with repeat false, or when the render loop sees
\* the name hash change in the middle of a pass.  (The stop setAnimation
\* makes of the pass in progress while it replaces the animation is part of
\* setAnimation and is let through.)
C23_RunningTransitions ==
    [][ rend'.isRunning_ # rend.isRunning_ =>
          \/ StopStep /\ ~rend'.isRunning_
          \/ SwapStep /\ rend'.isRunning_
          \/ SetRunningStep
          \/ CompletionStep
          \/ HashChangeStep ]_vars

\* the step is a call of setRepeat made by the control context
SetRepeatStep ==
    /\ cpc = "idle"
    /\ cpc' = "blocked" \/ (cpc' = "idle" /\ rend'.repeat # rend.repeat)

\* C24: setRepeat(r) returns, with the mutex released and repeat = r, for
\* either value of r: the control context never waits for the mutex it holds.
C24_SetRepeatReturns ==
    /\ [][ SetRepeatStep => cpc' = "idle" /\ mutex_' = "free" ]_vars
    /\ [][ \A r \in BOOLEAN : SetRepeat(r) => rend'.repeat = r /\ cpc' = "idle" ]_vars
    /\ [](cpc # "blocked")

\* the step is render() finding the Renderer stopped, or its animation
\* without frames, or returning the state of the Renderer
IdleRenderStep ==
    /\ rpc' # rpc
    /\ \/ rpc = "r_running" /\ ~rend.isRunning_
       \/ rpc = "r_empty" /\ currentAnimation.frames_ = <<>>
       \/ rpc = "r_frames" /\ currentAnimation.frames_ = <<>>
       \/ rpc = "r_ret"

\* C25: render() called while isRunning is false, or while the animation has
\* no frame, goes straight to its return: it writes nothing to the strip,
\* changes no field of the Renderer and leaves the mutex released.
C25_IdleRenderNoOp ==
    [][ IdleRenderStep =>
          /\ rpc' = IF rpc = "r_ret" THEN "t_delay" ELSE "r_ret"
          /\ UNCHANGED <<rend, currentAnimation, screen>>
          /\ mutex_' = "free"
          /\ hist'.passWrites = <<>> ]_vars

\* render() is about to return from a call that found the Renderer stopped:
\* no frame was fetched and none was written
C25_Witness ==
    /\ rpc = "r_ret"
    /\ ~rend.isRunning_
    /\ frameCount = 0
    /\ hist.passWrites = <<>>
    /\ currentAnimation.frames_ # <<>>

-----------------------------------------------------------------------------
(* Properties of the animation generators and of the Moving Bar *)

\* the LEDs a frame lights
Lit(frame) == { frame[j].index : j \in { i \in DOMAIN frame :
                                          frame[i].r > 0 \/ frame[i].g > 0 \/ frame[i].b > 0 } }

\* the LEDs a frame names
Named(frame) == { frame[j].index : j \in DOMAIN frame }

\* every pixel of the frame has the three channels at brightness
AllAt(frame, brightness) ==
    \A j \in DOMAIN frame :
        frame[j].r = brightness /\ frame[j].g = brightness /\ frame[j].b = brightness

\* the middle LED of an odd strip, the two middle LEDs of an even one
CentreLeds(ledCount) ==
    IF ledCount % 2 # 0 THEN {ledCount \div 2} ELSE {ledCount \div 2 - 1, ledCount \div 2}

\* the LEDs named are consecutive ones
IsBar(frame) ==
    \A x \in Named(frame), y \in Named(frame) : \A z \in x..y : z \in Named(frame)

\* C27: with abruptFade, createExtinguishingBarAnimation returns an all-on
\* frame of ledCount pixels, then frames of a bar that contracts, then exactly
\* retentionTime / 100 frames of the centre LED(s) alone at maxBrightness, then
\* a last frame in which every LED is off.
C27_ExtinguishingBarSequence ==
    (gen.fn = "Extinguishing Bar" /\ gen.abruptFade /\ gen.ledCount >= 1) =>
        LET frames == gen.frames
            n == Len(frames)
            retention == gen.time \div RetentionFrameMs
        IN /\ n >= retention + 2
           /\ Len(frames[1]) = gen.ledCount
           /\ Named(frames[1]) = 0..(gen.ledCount - 1)
           /\ AllAt(frames[1], gen.brightness)
           /\ \A f \in 2..(n - retention - 1) :
                 /\ IsBar(frames[f])
                 /\ AllAt(frames[f], gen.brightness)
                 /\ Named(frames[f]) \subseteq Named(frames[f - 1])
           /\ \A f \in (n - retention)..(n - 1) :
                 /\ Named(frames[f]) # {}
                 /\ Named(frames[f]) \subseteq CentreLeds(gen.ledCount)
                 /\ AllAt(frames[f], gen.brightness)
           /\ Lit(frames[n]) = {}

\* C28: for ledCount >= 1 and abruptFade, createCirclingBrightDotAnimation
\* returns ledCount frames of one pixel each, of index below ledCount: the
\* frame number when clockwise, and from one frame to the next (the first
\* after the last included) one more modulo ledCount when clockwise, one less
\* when counter-clockwise.
C28_CirclingDotFrames ==
    (gen.fn = "Circling Bright Dot" /\ gen.abruptFade /\ gen.ledCount >= 1) =>
        LET frames == gen.frames
            n == gen.ledCount
            step == IF gen.clockwise THEN 1 ELSE n - 1
        IN /\ Len(frames) = n
           /\ \A f \in 1..n :
                 /\ Len(frames[f]) = 1
                 /\ frames[f][1].index < n
                 /\ gen.clockwise => frames[f][1].index = f - 1
                 /\ frames[(f % n) + 1][1].index = (frames[f][1].index + step) % n

\* a counter-clockwise dot on 8 LEDs: its second frame is LED 7
C28_Witness ==
    /\ gen.fn = "Circling Bright Dot"
    /\ gen.abruptFade /\ ~gen.clockwise
    /\ gen.ledCount = 8
    /\ Len(gen.frames) = 8
    /\ gen.frames[2][1].index = 7

\* C29: the Moving Bar holds exactly one frame: the one createMovingBarAnimation
\* returns, and after every updateMovingBarAnimation, up, down or neither; a
\* call with neither button pressed changes nothing.
C29_MovingBarOneFrame ==
    /\ [](bar.moving => Len(bar.FRAMES) = 1)
    /\ [][ bar'.last = "set" => Len(bar'.FRAMES) = 1 ]_vars
    /\ [][ bar'.last = "neither" =>
             bar' = [bar EXCEPT !.last = "neither"] ]_vars

\* the Moving Bar was set, the up button moved it, and it wraps around the
\* end of the strip: one frame of two runs of pixels
C29_Witness ==
    /\ bar.moving
    /\ bar.last = "up"
    /\ bar.barStart > bar.barEnd
    /\ Len(bar.FRAMES) = 1
    /\ Len(bar.FRAMES[1]) > 1

-----------------------------------------------------------------------------
(* Properties of playback left alone *)

\* the frames of the installed animation
Playing == hist.installed /\ rend.isRunning_ /\ rend.repeat

\* C30: with repeat and isRunning true, an animation of n frames and no
\* control operation, every pass writes the frames 0, 1, ..., n-1 in this
\* order, each once, and under fair scheduling a pass is completed and a new
\* one started from frame 0 again and again; the render task never comes to
\* a step that only a control operation makes possible.
C30_PassesForever ==
    /\ [](~ENABLED renderDisturbed)
    /\ [](Playing =>
            /\ Len(hist.passWrites) <= Len(currentAnimation.frames_)
            /\ \A k \in DOMAIN hist.passWrites : hist.passWrites[k] = k - 1)
    /\ [][ (Playing /\ hist.passWrites # <<>> /\ hist'.passWrites = <<>>) =>
              Len(hist.passWrites) = Len(currentAnimation.frames_) ]_vars
    /\ (Playing /\ hist.passWrites = <<>>) ~> (hist.passWrites = <<0>>)
    /\ (Playing /\ hist.passWrites = <<0>>)
          ~> (Len(hist.passWrites) = Len(currentAnimation.frames_))
    /\ (Playing /\ Len(hist.passWrites) = Len(currentAnimation.frames_))
          ~> (hist.passWrites = <<>>)

\* the last of the MaxFrames frames of a pass has been written
C30_Witness ==
    /\ Playing
    /\ Len(currentAnimation.frames_) = MaxFrames
    /\ hist.passWrites = [k \in 1..MaxFrames |-> k - 1]

-----------------------------------------------------------------------------
(* Properties of the exitEarly flag *)

\* C31: exitEarly is set back to false by the render task only; once true it
\* is eventually seen by an interruptableDelay of the render task and set back
\* to false; and when the delay of a frame in render() was interrupted, the
\* next step of render() clears the flag and goes to its return without
\* writing a frame.
C31_ExitEarlyCleared ==
    /\ [][ (rend.exitEarly /\ ~rend'.exitEarly) =>
              (rpc \in {"r_clear", "t_clear"} /\ rpc' # rpc) ]_vars
    /\ [][ (rpc = "r_clear" /\ rpc' # rpc) =>
              (rpc' = "r_ret" /\ ~rend'.exitEarly /\ screen' = screen) ]_vars
    /\ [][ (rpc = "d_ret" /\ rpc' # rpc /\ hist.sawTrue) =>
              rpc' \in {"r_clear", "t_clear"} ]_vars
    /\ rend.exitEarly ~> ~rend.exitEarly

\* render() is about to clear the flag its frame delay saw; a frame of the
\* pass was written
C31_Witness ==
    /\ rpc = "r_clear"
    /\ rend.exitEarly
    /\ hist.passWrites # <<>>

-----------------------------------------------------------------------------
(* Properties of setPeakBrightness *)

\* C32: setPeakBrightness changes the stored brightness and nothing else:
\* isRunning, exitEarly, repeat, ledCount, the speed and the Animation are
\* after the call what they were before, on the Renderer and on the older one.
C32_BrightnessOnly ==
    /\ [][ rend'.peakBrightnessCoefficient # rend.peakBrightnessCoefficient =>
              /\ rend' = [rend EXCEPT !.peakBrightnessCoefficient =
                                          rend'.peakBrightnessCoefficient]
              /\ currentAnimation' = currentAnimation ]_vars
    /\ [][ old'.call = "setPeakBrightness" =>
              old' = [old EXCEPT !.PEAKBRIGHTNESS = old'.PEAKBRIGHTNESS,
                                 !.call = "setPeakBrightness"] ]_vars

-----------------------------------------------------------------------------
(* Properties of the bar generators                                          *)

BarGenerators == {"Growing Bar", "Shrinking Bar", "Extending Bar"}

\* the callers leave the heights and the distance at 0, the automatic value
CallerParameters == gen.startHeight = 0 /\ gen.endHeight = 0

\* no two pixels of the frame have the same index
DistinctIndices(frame) ==
    \A a \in 1..Len(frame), b \in 1..Len(frame) : a # b => frame[a].index # frame[b].index

\* C33: no frame a bar generator produces for the parameters its callers use
\* (heights and distance 0, abrupt or soft fade, even or odd ledCount) has
\* two pixels with the same index
C33_NoDuplicateIndex ==
    (gen.fn \in BarGenerators /\ CallerParameters)
        => \A f \in 1..Len(gen.frames) : DistinctIndices(gen.frames[f])

\* C34: for every ledCount, 0 included, and every uint8_t height, distance
\* and bar size, every pixel a generator produces has an index below ledCount
C34_GeneratorsBounded ==
    (gen.fn \in BarGenerators \cup {"Moving Bar"})
        => \A f \in 1..Len(gen.frames) :
              \A p \in 1..Len(gen.frames[f]) : gen.frames[f][p].index < gen.ledCount

-----------------------------------------------------------------------------
(* Properties of the frame reference render() keeps during a pass           *)

\* C35: whenever render() reads frames[frameindex] through the reference it
\* took at the start of the pass, frameindex is below the current length of
\* the Renderer's frame buffer, whatever setAnimation calls the control task
\* makes meanwhile.
C35_ReadInBounds == rpc = "r_write" => frameindex < Len(currentAnimation.frames_)

-----------------------------------------------------------------------------
(* Properties of the locks                                                   *)

\* C36: the system is free of deadlock: an operation that has returned holds
\* no lock, render() holds the mutex inside writeFrameToScreen only, and a
\* mutex that is taken is released again, so that every call returns.
C36_DeadlockFree ==
    /\ [](cpc = "idle" => mutex_ # "control")
    /\ [](rpc # "w_pixel" => mutex_ # "render")
    /\ (mutex_ # "free") ~> (mutex_ = "free")
    /\ (cpc # "idle") ~> (cpc = "idle")

\* C37: initializeScreen terminates and releases the mutex for every LED
\* count setLedCount accepts: its loop counter rises with every turn and
\* reaches ledCount, 256 and more included.
C37_InitializeScreenTerminates ==
    /\ [][InitializeScreenLoop => cloc'.i = cloc.i + 1]_vars
    /\ (mutex_ = "control") ~> (mutex_ = "free" /\ cpc = "idle")

-----------------------------------------------------------------------------
(* Properties of the Moving Bar on the strip                                 *)

\* the step is a call of updateMovingBarAnimation with a button pressed
BarMovedStep == bar.pc = "ready" /\ bar'.last \in {"up", "down"} /\ bar' # bar

\* C38: after any sequence of up and down steps on a strip of one LED or
\* more, barStart and barEnd are below LEDCOUNT and so is the index of every
\* pixel of the frame, the bar on the last LED or around the end included;
\* an up step is undone by a down step.
C38_MovingBarOnStrip ==
    /\ [](bar.pc = "ready" => bar.barStart < bar.LEDCOUNT /\ bar.barEnd < bar.LEDCOUNT)
    /\ [](bar.last \in {"up", "down"} =>
            \A f \in 1..Len(bar.FRAMES) :
               \A p \in 1..Len(bar.FRAMES[f]) : bar.FRAMES[f][p].index < bar.LEDCOUNT)
    /\ [][ BarMovedStep /\ bar'.last = "up" =>
             /\ MovedBar(bar'.barStart, FALSE, bar.LEDCOUNT) = bar.barStart
             /\ MovedBar(bar'.barEnd, FALSE, bar.LEDCOUNT) = bar.barEnd ]_vars

-----------------------------------------------------------------------------
(* Properties of updateMovingBarAnimation against render()                   *)

\* C39: the clear and the push of updateMovingBarAnimation are one step for
\* the render task: once the Moving Bar is set, render() never finds the
\* animation without frames, never reads frames[0] of an empty buffer, and
\* is not between its take and its give of LOCK while the buffer is being
\* replaced.
C39_ClearPushInvisible ==
    /\ mov.moving => mov.seen # 0
    /\ ~mov.emptyRead
    /\ mov.upc \in {"u_clear", "u_push", "u_give"} =>
          mov.orpc \notin {"o_running", "o_empty", "o_copy"}

\* the buffer is cleared and not yet refilled while the Renderer is running
\* and the render task, which has rendered the bar before, is about to take
\* LOCK
C39_Witness ==
    /\ mov.upc = "u_push"
    /\ mov.FRAMES = <<>>
    /\ mov.moving /\ mov.RUNNING
    /\ mov.rendered
    /\ mov.orpc = "idle"

-----------------------------------------------------------------------------
(* Properties of the menu navigation                                         *)

MenuStates ==
    {"MAIN", "ANIMATION_SELECT", "BRIGHTNESS_SETTINGS", "SPEED_SETTINGS", "LED_COUNT_SETTINGS",
     "REPEAT_SETTINGS", "MODE_SETTINGS", "SYSTEM_INFO"}

\* the menus of the main menu's options, in the order of the options
MainOptions ==
    <<"ANIMATION_SELECT", "BRIGHTNESS_SETTINGS", "SPEED_SETTINGS", "LED_COUNT_SETTINGS",
      "REPEAT_SETTINGS", "MODE_SETTINGS", "SYSTEM_INFO">>

Digits == <<"1", "2", "3", "4", "5", "6", "7">>

\* C40: the menu starts in MAIN; in MAIN the lines "1" to "7" open the seven
\* menus in their order and any other line leaves the menu in MAIN; in every
\* other menu the line "0" returns to MAIN, so MAIN can be reached from
\* every state.
C40_MenuNavigation ==
    /\ menu.currentState = "MAIN"
    /\ [](menu.currentState \in MenuStates)
    /\ [][ \A input \in MenuInputs :
             (menu.currentState = "MAIN" /\ processInput(input)) =>
                 IF \E d \in 1..7 : input = <<Digits[d]>>
                 THEN \E d \in 1..7 : input = <<Digits[d]>> /\ menu'.currentState = MainOptions[d]
                 ELSE menu'.currentState = "MAIN" ]_vars
    /\ [][ (menu.currentState # "MAIN" /\ processInput(<<"0">>)) =>
             menu'.currentState = "MAIN" ]_vars
    /\ [](menu.currentState # "MAIN" =>
            ENABLED (processInput(<<"0">>) /\ menu'.currentState = "MAIN"))

\* the LED count menu was opened, a custom count was set, and "0" has brought
\* the menu back to MAIN
C40_Witness ==
    /\ menu.currentState = "MAIN"
    /\ menu.input = <<"0">>
    /\ menu.call = <<"setLEDCount", 7>>

-----------------------------------------------------------------------------
(* Properties of Renderer::interruptableDelay *)

\* C9: once exitEarly is true while interruptableDelay is in progress, at most
\* one further sleep slice is completed (the one the flag was set in), and a
\* call that completed a slice with the flag set returns true.
C9_BoundedLatency ==
    /\ hist.late <= 1
    /\ rpc = "d_ret" /\ hist.late = 1 => dl.ret

\* C9 witness: the flag was set during a slice that is not the last, that
\* slice was completed, and the call returns true before any further slice.
C9_Witness ==
    /\ rpc = "d_ret"
    /\ dl.ret
    /\ hist.late = 1
    /\ hist.slept + dl.checkEveryMs <= dl.milliseconds

\* the return value and the polls of a call that is returning
C10_Return ==
    rpc = "d_ret" =>
        /\ dl.ret = hist.sawTrue
        /\ ~dl.ret => /\ hist.slept = dl.milliseconds
                      /\ hist.polls = dl.checks + (IF dl.remainder > 0 THEN 1 ELSE 0) + 1

\* the steps of interruptableDelay write no Renderer field, nor the Animation
\* or the strip
C10_NoWrite ==
    [][interruptableDelay => UNCHANGED <<rend, currentAnimation, screen, mutex_>>]_vars

\* C10: interruptableDelay returns true exactly when one of its polls saw
\* exitEarly true, and false only after the whole duration was slept with
\* every poll, the final one included, seeing false; no step of it changes
\* exitEarly or any other Renderer field.
C10_ReturnsWhatItSaw == []C10_Return /\ C10_NoWrite

\* C10 witness: a call returns true after some slices, with the flag it saw
\* still set.
C10_Witness ==
    /\ rpc = "d_ret"
    /\ dl.ret
    /\ hist.sawTrue
    /\ hist.slept > 0
    /\ rend.exitEarly

\* a call returns false after sleeping a duration with a remainder
C10_WitnessFalse ==
    /\ rpc = "d_ret"
    /\ ~dl.ret
    /\ dl.remainder > 0
    /\ dl.checks > 0

====
